---- MODULE Spec2Model ----
(***************************************************************************)
(* Web-scenario poller: the scheduler loop process_httptests() and the     *)
(* scenario runner process_httptest() of                                   *)
(* src/zabbix_server/httppoller/httptest.c, as one sequential state        *)
(* machine.  The only concurrent actor is the shutdown signal, which       *)
(* clears the flag read by ZBX_IS_RUNNING().                               *)
(***************************************************************************)
EXTENDS Integers, Sequences, FiniteSets, TLC

\* ------------------------------------------------------------------ bounds
NumTests == 2
MaxRetries == 2
MaxNo == 2

TestIds == 1..NumTests
StepNos == 1..MaxNo
RetryValues == 0..MaxRetries

\* ------------------------------------------------------- program constants
ZBX_DEFAULT_INTERVAL == 60

NULL == "NULL"
CURLE_OK == "CURLE_OK"
CURLE_FAIL == "CURLE_FAIL"

\* delay strings of the httptest row; "abc" has no time-suffix reading
DelayStrings == {"abc", "30"}

\* zbx_is_time_suffix(): FAIL (-1 here) or the number of seconds
zbx_is_time_suffix(str) ==
    CASE str = "30" -> 30
      [] str = "0" -> 0
      [] str = "1" -> 1
      [] str = "3600" -> 3600
      [] str = "3601" -> 3601
      [] OTHER -> -1

\* response codes a server may answer and status_codes lists of a step
\* (the empty list means that any code is accepted)
RspCodes == {200}
StatusCodeLists == {{}, {200}, {201} \cup (301..399)}
\* per-step download speeds reported by the driver
Speeds == {0, 6}

zbx_int_in_list(list, value) == value \in list

VARIABLES
    pc,                  \* position inside process_httptests/process_httptest
    running,             \* the flag read by ZBX_IS_RUNNING()
    due,                 \* configuration cache: ids of the tests due at `now`
    queued,              \* configuration cache: delays passed to zbx_dc_httptest_queue, per id
    httptestid,          \* the leased test id (0: none)
    um_handle,           \* TRUE while the user-macro handle is open
    httptests_count,     \* return value of process_httptests
    load,                \* outcome of the test row fetch and httptest_load_pairs
    cfg_retries,         \* row[10] of the httptest row as configured
    retries,             \* httptest.httptest.retries
    delay_str,           \* httptest.httptest.delay
    delay,               \* int delay of the scheduler loop body
    result,              \* step rows not fetched yet (their `no`)
    db_httpstep_no,      \* db_httpstep.no (0: no step dispatched yet)
    easyhandle,          \* TRUE while a driver session is open
    err,                 \* CURLcode of the last curl_easy_perform
    err_str,             \* error string of the runner
    lastfailedstep,
    speed_download,
    speed_download_num,
    attempts,            \* history: curl_easy_perform calls of the current step
    failing,             \* history: the checks the response of the current step fails
    timeout,             \* db_httpstep.timeout until the request is handed to the driver
    log,                 \* history: events since the current test was leased
    fn_pc,               \* a function checked on its own: "idle", "call" or "done"
    fn_in,               \* its arguments and the rows it reads
    fn_out               \* what it returns or hands on

mainvars == <<pc, running, due, queued, httptestid, um_handle, httptests_count, load,
          cfg_retries, retries, delay_str, delay, result, db_httpstep_no, easyhandle,
          err, err_str, lastfailedstep, speed_download, speed_download_num,
          attempts, failing, timeout, log>>

\* the state of the functions that are checked on their own
purevars == <<fn_pc, fn_in, fn_out>>

vars == <<mainvars, purevars>>

sched == <<due, queued, httptestid, um_handle, httptests_count>>
cfg == <<load, cfg_retries, delay_str>>
step == <<result, db_httpstep_no>>
speed == <<speed_download, speed_download_num>>

Min(S) == CHOOSE x \in S : \A y \in S : x <= y

InitMain ==
    /\ pc = "start"
    /\ running = TRUE
    /\ due \in SUBSET TestIds
    /\ queued = [t \in TestIds |-> <<>>]
    /\ httptestid = 0
    /\ um_handle = FALSE
    /\ httptests_count = 0
    /\ load = "none"
    /\ cfg_retries = 0
    /\ retries = 0
    /\ delay_str = "30"
    /\ delay = 0
    /\ result = {}
    /\ db_httpstep_no = 0
    /\ easyhandle = FALSE
    /\ err = CURLE_OK
    /\ err_str = NULL
    /\ lastfailedstep = 0
    /\ speed_download = 0
    /\ speed_download_num = 0
    /\ attempts = 0
    /\ failing = {}
    /\ timeout = 0
    /\ log = <<>>

\* no function is checked on its own
InitPure ==
    /\ fn_pc = "idle"
    /\ fn_in = <<>>
    /\ fn_out = <<>>

Init == InitMain /\ InitPure

\* the shutdown signal
Shutdown ==
    /\ running
    /\ pc # "done"
    /\ running' = FALSE
    /\ UNCHANGED <<pc, sched, cfg, retries, delay, step, easyhandle, err, err_str,
                   lastfailedstep, speed, attempts, log>>
    /\ UNCHANGED <<failing, timeout>>
    /\ UNCHANGED purevars

\* zbx_dc_httptest_next(): lease the due test that is first in the queue of
\* the cache (ids are numbered in queue order)
Lease(id) ==
    /\ id = Min(due)
    /\ due' = due \ {id}
    /\ httptestid' = id
    /\ log' = <<>>
    /\ load' = "none"

\* process_httptests(), entry: nothing is due
StartNone ==
    /\ pc = "start"
    /\ due = {}
    /\ pc' = "done"
    /\ UNCHANGED <<running, sched, cfg, retries, delay, step, easyhandle, err, err_str,
                   lastfailedstep, speed, attempts, log>>
    /\ UNCHANGED <<failing, timeout>>
    /\ UNCHANGED purevars

\* process_httptests(), entry: lease the first test, open the user-macro handle
StartLease ==
    /\ pc = "start"
    /\ \E id \in due : Lease(id)
    /\ um_handle' = TRUE
    /\ pc' = "select"
    /\ UNCHANGED <<running, queued, httptests_count, cfg_retries, retries, delay_str, delay,
                   step, easyhandle, err, err_str, lastfailedstep, speed, attempts>>
    /\ UNCHANGED <<failing, timeout>>
    /\ UNCHANGED purevars

\* loop body: the httptest row is not found
SelectNoRow ==
    /\ pc = "select"
    /\ load' = "norow"
    /\ delay' = 0
    /\ pc' = "cond"
    /\ UNCHANGED <<running, sched, cfg_retries, retries, delay_str, step, easyhandle, err,
                   err_str, lastfailedstep, speed, attempts, log>>
    /\ UNCHANGED <<failing, timeout>>
    /\ UNCHANGED purevars

\* loop body: httptest_load_pairs() fails, `continue`
SelectLoadFail ==
    /\ pc = "select"
    /\ load' = "loadfail"
    /\ delay' = 0
    /\ pc' = "cond"
    /\ UNCHANGED <<running, sched, cfg_retries, retries, delay_str, step, easyhandle, err,
                   err_str, lastfailedstep, speed, attempts, log>>
    /\ UNCHANGED <<failing, timeout>>
    /\ UNCHANGED purevars

\* loop body: the test is loaded and process_httptest() is entered
SelectLoadOk ==
    /\ pc = "select"
    /\ load' = "ok"
    /\ delay' = 0
    /\ \E r \in RetryValues : cfg_retries' = r /\ retries' = r
    /\ delay_str' \in DelayStrings
    /\ result' \in SUBSET StepNos
    /\ db_httpstep_no' = 0
    /\ err_str' = NULL
    /\ lastfailedstep' = 0
    /\ speed_download' = 0
    /\ speed_download_num' = 0
    /\ easyhandle' = FALSE
    /\ attempts' = 0
    /\ pc' = "delay"
    /\ UNCHANGED <<running, sched, err, log>>
    /\ UNCHANGED <<failing, timeout>>
    /\ UNCHANGED purevars

\* variant: an invalid update interval returns from the runner at once
ValidateDelay_return ==
    /\ pc = "delay"
    /\ IF zbx_is_time_suffix(delay_str) < 0
       THEN /\ err_str' = "update interval \"" \o delay_str \o "\" is invalid"
            /\ lastfailedstep' = -1
            /\ delay' = ZBX_DEFAULT_INTERVAL
            /\ log' = Append(log, [e |-> "delay_invalid"])
            /\ pc' = "queue"
       ELSE /\ delay' = zbx_is_time_suffix(delay_str)
            /\ pc' = "open"
            /\ UNCHANGED <<err_str, lastfailedstep, log>>
    /\ UNCHANGED <<running, sched, cfg, retries, step, easyhandle, err, speed, attempts>>
    /\ UNCHANGED <<failing, timeout>>
    /\ UNCHANGED purevars

\* variant: an invalid update interval leaves *delay as the caller set it
ValidateDelay_nodefault ==
    /\ pc = "delay"
    /\ IF zbx_is_time_suffix(delay_str) < 0
       THEN /\ err_str' = "update interval \"" \o delay_str \o "\" is invalid"
            /\ lastfailedstep' = -1
            /\ log' = Append(log, [e |-> "delay_invalid"])
            /\ pc' = "emit"
            /\ UNCHANGED delay
       ELSE /\ delay' = zbx_is_time_suffix(delay_str)
            /\ pc' = "open"
            /\ UNCHANGED <<err_str, lastfailedstep, log>>
    /\ UNCHANGED <<running, sched, cfg, retries, step, easyhandle, err, speed, attempts>>
    /\ UNCHANGED <<failing, timeout>>
    /\ UNCHANGED purevars

\* process_httptest(): the update interval
ValidateDelay ==
    /\ pc = "delay"
    /\ IF zbx_is_time_suffix(delay_str) < 0
       THEN /\ err_str' = "update interval \"" \o delay_str \o "\" is invalid"
            /\ lastfailedstep' = -1
            /\ delay' = ZBX_DEFAULT_INTERVAL
            /\ log' = Append(log, [e |-> "delay_invalid"])
            /\ pc' = "emit"
       ELSE /\ delay' = zbx_is_time_suffix(delay_str)
            /\ pc' = "open"
            /\ UNCHANGED <<err_str, lastfailedstep, log>>
    /\ UNCHANGED <<running, sched, cfg, retries, step, easyhandle, err, speed, attempts>>
    /\ UNCHANGED <<failing, timeout>>
    /\ UNCHANGED purevars

\* errors of curl_easy_init, of a session option and of zbx_http_prepare_ssl
OpenErrors == {"cannot initialize cURL library", "curl_easy_setopt error", "ssl error"}

\* variant: a failure to open the session falls through into the step loop
OpenDriver_nogoto ==
    /\ pc = "open"
    /\ \/ /\ \E e \in OpenErrors :
               /\ err_str' = e
               /\ easyhandle' = (e # "cannot initialize cURL library")
          /\ log' = Append(log, [e |-> "open_failed", easyhandle |-> easyhandle'])
          /\ pc' = "fetch"
       \/ /\ easyhandle' = TRUE
          /\ log' = Append(log, [e |-> "session_open"])
          /\ pc' = "fetch"
          /\ UNCHANGED err_str
    /\ UNCHANGED <<running, sched, cfg, retries, delay, step, err, lastfailedstep, speed,
                   attempts>>
    /\ UNCHANGED <<failing, timeout>>
    /\ UNCHANGED purevars

\* process_httptest(): curl_easy_init, the session options, zbx_http_prepare_ssl
OpenDriver ==
    /\ pc = "open"
    /\ \/ /\ \E e \in OpenErrors :
               /\ err_str' = e
               /\ easyhandle' = (e # "cannot initialize cURL library")
          /\ log' = Append(log, [e |-> "open_failed", easyhandle |-> easyhandle'])
          /\ pc' = "clean"
       \/ /\ easyhandle' = TRUE
          /\ log' = Append(log, [e |-> "session_open"])
          /\ pc' = "fetch"
          /\ UNCHANGED err_str
    /\ UNCHANGED <<running, sched, cfg, retries, delay, step, err, lastfailedstep, speed,
                   attempts>>
    /\ UNCHANGED <<failing, timeout>>
    /\ UNCHANGED purevars

\* the row DBfetch() returns from a result ordered by no
NextRow(rows) == Min(rows)

\* while (NULL != (row = DBfetch(result)) && ZBX_IS_RUNNING())
FetchStep ==
    /\ pc = "fetch"
    /\ IF result = {}
       THEN /\ pc' = "clean"
            /\ UNCHANGED <<step, attempts, log>>
       ELSE /\ result' = result \ {NextRow(result)}
            /\ IF running
               THEN /\ db_httpstep_no' = NextRow(result)
                    /\ attempts' = 0
                    /\ log' = Append(log, [e |-> "dispatch", no |-> NextRow(result)])
                    /\ pc' = "prepare"
               ELSE /\ pc' = "clean"
                    /\ UNCHANGED <<db_httpstep_no, attempts, log>>
    /\ UNCHANGED <<running, sched, cfg, retries, delay, easyhandle, err, err_str,
                   lastfailedstep, speed>>
    /\ UNCHANGED <<failing, timeout>>
    /\ UNCHANGED purevars

\* errors of a step before its request is performed
SEC_PER_HOUR == 3600

\* row[4] of the step row after macro expansion
TimeoutStrings == {"abc", "0", "1", "3600", "3601"}

\* errors of a step between the timeout check and the perform
PrepareErrors == {"curl_easy_setopt error", "auth error"}

\* the two messages of the timeout check
TimeoutInvalid(buffer) == "timeout \"" \o buffer \o "\" is invalid"
TimeoutOutOfBounds(buffer) == "timeout \"" \o buffer \o "\" is out of 1-3600 seconds bounds"

\* variant: the bounds 1 and 3600 themselves are refused
timeout_error_exclusive(buffer) ==
    IF zbx_is_time_suffix(buffer) < 0
    THEN TimeoutInvalid(buffer)
    ELSE IF zbx_is_time_suffix(buffer) <= 1 \/ SEC_PER_HOUR <= zbx_is_time_suffix(buffer)
    THEN TimeoutOutOfBounds(buffer)
    ELSE NULL

\* the error of the timeout check, NULL when the timeout is accepted
timeout_error(buffer) ==
    IF zbx_is_time_suffix(buffer) < 0
    THEN TimeoutInvalid(buffer)
    ELSE IF zbx_is_time_suffix(buffer) < 1 \/ SEC_PER_HOUR < zbx_is_time_suffix(buffer)
    THEN TimeoutOutOfBounds(buffer)
    ELSE NULL

\* the loop body from the step row to the last curl_easy_setopt
PrepareStep ==
    /\ pc = "prepare"
    /\ \/ /\ err_str' = "cannot load web scenario step data"
          /\ log' = Append(log, [e |-> "step_error", no |-> db_httpstep_no])
          /\ pc' = "step_end"
          /\ UNCHANGED timeout
       \/ \E buffer \in TimeoutStrings :
             /\ timeout' = IF zbx_is_time_suffix(buffer) < 0 THEN timeout
                           ELSE zbx_is_time_suffix(buffer)
             /\ IF timeout_error(buffer) # NULL
                THEN /\ err_str' = timeout_error(buffer)
                     /\ log' = Append(log, [e |-> "step_error", no |-> db_httpstep_no])
                     /\ pc' = "step_end"
                ELSE \/ /\ err_str' \in PrepareErrors
                        /\ log' = Append(log, [e |-> "step_error", no |-> db_httpstep_no])
                        /\ pc' = "step_end"
                     \/ /\ pc' = "perform"
                        /\ UNCHANGED <<err_str, log>>
    /\ UNCHANGED <<running, sched, cfg, retries, delay, step, easyhandle, err,
                   lastfailedstep, speed, attempts>>
    /\ UNCHANGED failing
    /\ UNCHANGED purevars

\* variant: the loop condition is evaluated after a successful perform too
Perform_nobreak ==
    /\ pc = "perform"
    /\ attempts' = attempts + 1
    /\ \E code \in {CURLE_OK, CURLE_FAIL} :
          /\ err' = code
          /\ log' = Append(log, [e |-> "perform", no |-> db_httpstep_no, code |-> code])
          /\ retries' = retries - 1
          /\ pc' = IF 0 < retries - 1 THEN "perform" ELSE "eval"
    /\ UNCHANGED <<running, sched, cfg, delay, step, easyhandle, err_str, lastfailedstep,
                   speed>>
    /\ timeout' = 0
    /\ UNCHANGED failing
    /\ UNCHANGED purevars

\* one pass of do { ... } while (0 < --httptest->httptest.retries)
Perform ==
    /\ pc = "perform"
    /\ attempts' = attempts + 1
    /\ \E code \in {CURLE_OK, CURLE_FAIL} :
          /\ err' = code
          /\ log' = Append(log, [e |-> "perform", no |-> db_httpstep_no, code |-> code])
          /\ IF code = CURLE_OK
             THEN /\ pc' = "eval"
                  /\ UNCHANGED retries
             ELSE /\ retries' = retries - 1
                  /\ pc' = IF 0 < retries - 1 THEN "perform" ELSE "eval"
    /\ UNCHANGED <<running, sched, cfg, delay, step, easyhandle, err_str, lastfailedstep,
                   speed>>
    /\ timeout' = 0
    /\ UNCHANGED failing
    /\ UNCHANGED purevars

\* variant: a failed extraction of step variables replaces an earlier error
EvalError_replace(rsp_ok, rspcode, status_codes, time_ok, speed_ok, required_ok, tvars_ok, svars_ok) ==
    IF ~rsp_ok THEN "getinfo response code error"
    ELSE IF ~svars_ok THEN "error in step variables"
    ELSE IF status_codes # {} /\ ~zbx_int_in_list(status_codes, rspcode)
         THEN "response code did not match any of the required status codes"
    ELSE IF ~time_ok THEN "getinfo total time error"
    ELSE IF ~speed_ok THEN "getinfo speed download error"
    ELSE IF ~required_ok THEN "required pattern was not found"
    ELSE IF ~tvars_ok THEN "error in scenario variables"
    ELSE NULL

\* the first error of the evaluation of a performed step
EvalError(rsp_ok, rspcode, status_codes, time_ok, speed_ok, required_ok, tvars_ok, svars_ok) ==
    IF ~rsp_ok THEN "getinfo response code error"
    ELSE IF status_codes # {} /\ ~zbx_int_in_list(status_codes, rspcode)
         THEN "response code did not match any of the required status codes"
    ELSE IF ~time_ok THEN "getinfo total time error"
    ELSE IF ~speed_ok THEN "getinfo speed download error"
    ELSE IF ~required_ok THEN "required pattern was not found"
    ELSE IF ~tvars_ok THEN "error in scenario variables"
    ELSE IF ~svars_ok THEN "error in step variables"
    ELSE NULL

\* TRUE when the speed of the step is added to the sum of the test
SpeedCounted(rsp_ok, rspcode, status_codes, time_ok, speed_ok) ==
    LET before == ~rsp_ok \/ (status_codes # {} /\ ~zbx_int_in_list(status_codes, rspcode))
                  \/ ~time_ok
    IN  ~(~speed_ok /\ ~before)

\* history: what is wrong with the transfer that is evaluated, whether or not
\* the evaluation looks at it
Failing(rsp_ok, rspcode, status_codes, time_ok, speed_ok, required_ok, tvars_ok, svars_ok) ==
    (IF rsp_ok THEN {} ELSE {"rspcode"})
    \cup (IF status_codes # {} /\ rspcode \notin status_codes THEN {"status"} ELSE {})
    \cup (IF time_ok THEN {} ELSE {"time"})
    \cup (IF speed_ok THEN {} ELSE {"speed"})
    \cup (IF required_ok THEN {} ELSE {"required"})
    \cup (IF tvars_ok THEN {} ELSE {"tvars"})
    \cup (IF svars_ok THEN {} ELSE {"svars"})

\* history: the step `no` recorded the error e
StepError(e, no) == IF e # NULL THEN <<[e |-> "step_error", no |-> no]>> ELSE <<>>

\* variant: a step that fails its evaluation jumps over process_step_data
Evaluate_skipdata ==
    /\ pc = "eval"
    /\ IF err = CURLE_OK
       THEN \E rsp_ok, time_ok, speed_ok, required_ok, tvars_ok, svars_ok \in BOOLEAN,
               rspcode \in RspCodes, status_codes \in StatusCodeLists, sp \in Speeds :
               LET stat == [rspcode |-> IF rsp_ok THEN rspcode ELSE 0,
                            speed_download |-> IF speed_ok THEN sp ELSE 0]
                   error == EvalError(rsp_ok, rspcode, status_codes, time_ok, speed_ok,
                                      required_ok, tvars_ok, svars_ok)
               IN  /\ err_str' = error
                   /\ failing' = Failing(rsp_ok, rspcode, status_codes, time_ok, speed_ok,
                                          required_ok, tvars_ok, svars_ok)
                   /\ IF SpeedCounted(rsp_ok, rspcode, status_codes, time_ok, speed_ok)
                      THEN /\ speed_download' = speed_download + stat.speed_download
                           /\ speed_download_num' = speed_download_num + 1
                      ELSE UNCHANGED speed
                   /\ log' = log \o (IF error = NULL
                                       THEN <<[e |-> "step_data", no |-> db_httpstep_no,
                                               stat |-> stat, speed_ok |-> speed_ok]>>
                                       ELSE <<>>)
                                 \o StepError(error, db_httpstep_no)
       ELSE /\ err_str' = "transport error"
            /\ log' = Append(log, [e |-> "step_error", no |-> db_httpstep_no])
            /\ UNCHANGED <<speed, failing>>
    /\ pc' = "step_end"
    /\ UNCHANGED <<running, sched, cfg, retries, delay, step, easyhandle, err,
                   lastfailedstep, attempts>>
    /\ UNCHANGED timeout
    /\ UNCHANGED purevars

\* variant: process_step_data is called on the transport error path too, with
\* the stat left by the memset before the request
Evaluate_dataonfail ==
    /\ pc = "eval"
    /\ IF err = CURLE_OK
       THEN \E rsp_ok, time_ok, speed_ok, required_ok, tvars_ok, svars_ok \in BOOLEAN,
               rspcode \in RspCodes, status_codes \in StatusCodeLists, sp \in Speeds :
               LET stat == [rspcode |-> IF rsp_ok THEN rspcode ELSE 0,
                            speed_download |-> IF speed_ok THEN sp ELSE 0]
                   error == EvalError(rsp_ok, rspcode, status_codes, time_ok, speed_ok,
                                      required_ok, tvars_ok, svars_ok)
               IN  /\ err_str' = error
                   /\ failing' = Failing(rsp_ok, rspcode, status_codes, time_ok, speed_ok,
                                          required_ok, tvars_ok, svars_ok)
                   /\ IF SpeedCounted(rsp_ok, rspcode, status_codes, time_ok, speed_ok)
                      THEN /\ speed_download' = speed_download + stat.speed_download
                           /\ speed_download_num' = speed_download_num + 1
                      ELSE UNCHANGED speed
                   /\ log' = log \o <<[e |-> "step_data", no |-> db_httpstep_no,
                                       stat |-> stat, speed_ok |-> speed_ok]>>
                                 \o StepError(error, db_httpstep_no)
       ELSE /\ err_str' = "transport error"
            /\ log' = log \o <<[e |-> "step_data", no |-> db_httpstep_no,
                                stat |-> [rspcode |-> 0, speed_download |-> 0],
                                speed_ok |-> FALSE],
                               [e |-> "step_error", no |-> db_httpstep_no]>>
            /\ UNCHANGED <<speed, failing>>
    /\ pc' = "step_end"
    /\ UNCHANGED <<running, sched, cfg, retries, delay, step, easyhandle, err,
                   lastfailedstep, attempts>>
    /\ UNCHANGED timeout
    /\ UNCHANGED purevars

\* after the retry loop: evaluation and per-step emission, or the transport error
Evaluate ==
    /\ pc = "eval"
    /\ IF err = CURLE_OK
       THEN \E rsp_ok, time_ok, speed_ok, required_ok, tvars_ok, svars_ok \in BOOLEAN,
               rspcode \in RspCodes, status_codes \in StatusCodeLists, sp \in Speeds :
               LET stat == [rspcode |-> IF rsp_ok THEN rspcode ELSE 0,
                            speed_download |-> IF speed_ok THEN sp ELSE 0]
                   error == EvalError(rsp_ok, rspcode, status_codes, time_ok, speed_ok,
                                      required_ok, tvars_ok, svars_ok)
               IN  /\ err_str' = error
                   /\ failing' = Failing(rsp_ok, rspcode, status_codes, time_ok, speed_ok,
                                          required_ok, tvars_ok, svars_ok)
                   /\ IF SpeedCounted(rsp_ok, rspcode, status_codes, time_ok, speed_ok)
                      THEN /\ speed_download' = speed_download + stat.speed_download
                           /\ speed_download_num' = speed_download_num + 1
                      ELSE UNCHANGED speed
                   /\ log' = log \o <<[e |-> "step_data", no |-> db_httpstep_no,
                                       stat |-> stat, speed_ok |-> speed_ok]>>
                                 \o StepError(error, db_httpstep_no)
       ELSE /\ err_str' = "transport error"
            /\ log' = Append(log, [e |-> "step_error", no |-> db_httpstep_no])
            /\ UNCHANGED <<speed, failing>>
    /\ pc' = "step_end"
    /\ UNCHANGED <<running, sched, cfg, retries, delay, step, easyhandle, err,
                   lastfailedstep, attempts>>
    /\ UNCHANGED timeout
    /\ UNCHANGED purevars

\* variant: an error of the step does not end the step loop
StepEnd_nobreak ==
    /\ pc = "step_end"
    /\ IF err_str # NULL
       THEN /\ lastfailedstep' = db_httpstep_no
            /\ pc' = "fetch"
       ELSE /\ pc' = "fetch"
            /\ UNCHANGED lastfailedstep
    /\ failing' = {}
    /\ timeout' = 0
    /\ UNCHANGED <<running, sched, cfg, retries, delay, step, easyhandle, err, err_str,
                   speed, attempts, log>>
    /\ UNCHANGED purevars

\* httpstep_error: the step is cleaned up; an error ends the step loop
StepEnd ==
    /\ pc = "step_end"
    /\ IF err_str # NULL
       THEN /\ lastfailedstep' = db_httpstep_no
            /\ pc' = "clean"
       ELSE /\ pc' = "fetch"
            /\ UNCHANGED lastfailedstep
    /\ failing' = {}
    /\ timeout' = 0
    /\ UNCHANGED <<running, sched, cfg, retries, delay, step, easyhandle, err, err_str,
                   speed, attempts, log>>
    /\ UNCHANGED purevars

\* variant: the session is not destroyed
Clean_nocleanup ==
    /\ pc = "clean"
    /\ pc' = "emit"
    /\ UNCHANGED <<running, sched, cfg, retries, delay, step, easyhandle, err, err_str,
                   lastfailedstep, speed, attempts, log>>
    /\ UNCHANGED <<failing, timeout>>
    /\ UNCHANGED purevars

\* clean: curl_easy_cleanup(easyhandle)
Clean ==
    /\ pc = "clean"
    /\ easyhandle' = FALSE
    /\ log' = IF easyhandle THEN Append(log, [e |-> "session_close"]) ELSE log
    /\ pc' = "emit"
    /\ UNCHANGED <<running, sched, cfg, retries, delay, step, err, err_str, lastfailedstep,
                   speed, attempts>>
    /\ UNCHANGED <<failing, timeout>>
    /\ UNCHANGED purevars

\* variant: only a negative lastfailedstep is replaced
EmittedStep_strict(lfs, e) == IF e # NULL /\ 0 > lfs THEN 1 ELSE lfs

\* the lastfailedstep passed to process_test_data
EmittedStep(lfs, e) == IF e # NULL /\ 0 >= lfs THEN 1 ELSE lfs

\* the speed passed to process_test_data
EmittedSpeed(sum, num) == IF 0 # num THEN sum \div num ELSE sum

\* variant: the sink is flushed before process_test_data()
EmitTest_flushfirst ==
    /\ pc = "emit"
    /\ lastfailedstep' = EmittedStep(lastfailedstep, err_str)
    /\ speed_download' = EmittedSpeed(speed_download, speed_download_num)
    /\ log' = log \o <<[e |-> "flush"],
                       [e |-> "test_data",
                        lastfailedstep |-> EmittedStep(lastfailedstep, err_str),
                        speed_download |-> EmittedSpeed(speed_download, speed_download_num),
                        err_str |-> err_str]>>
    /\ pc' = "queue"
    /\ UNCHANGED <<running, sched, cfg, retries, delay, step, easyhandle, err, err_str,
                   speed_download_num, attempts>>
    /\ UNCHANGED <<failing, timeout>>
    /\ UNCHANGED purevars

\* httptest_error: process_test_data() and zbx_preprocessor_flush()
EmitTest ==
    /\ pc = "emit"
    /\ lastfailedstep' = EmittedStep(lastfailedstep, err_str)
    /\ speed_download' = EmittedSpeed(speed_download, speed_download_num)
    /\ log' = log \o <<[e |-> "test_data",
                        lastfailedstep |-> EmittedStep(lastfailedstep, err_str),
                        speed_download |-> EmittedSpeed(speed_download, speed_download_num),
                        err_str |-> err_str],
                       [e |-> "flush"]>>
    /\ pc' = "queue"
    /\ UNCHANGED <<running, sched, cfg, retries, delay, step, easyhandle, err, err_str,
                   speed_download_num, attempts>>
    /\ UNCHANGED <<failing, timeout>>
    /\ UNCHANGED purevars

\* back in the loop body: zbx_dc_httptest_queue(now, httptestid, delay)
Requeue ==
    /\ pc = "queue"
    /\ queued' = [queued EXCEPT ![httptestid] = Append(@, delay)]
    /\ log' = Append(log, [e |-> "queue", delay |-> delay])
    /\ httptests_count' = httptests_count + 1
    /\ pc' = "cond"
    /\ UNCHANGED <<running, due, httptestid, um_handle, cfg, retries, delay, step,
                   easyhandle, err, err_str, lastfailedstep, speed, attempts>>
    /\ UNCHANGED <<failing, timeout>>
    /\ UNCHANGED purevars

\* variant: the loop condition does not read the running flag
LoopNext_norunning ==
    /\ pc = "cond"
    /\ \E id \in due : Lease(id)
    /\ pc' = "select"
    /\ UNCHANGED <<running, queued, um_handle, httptests_count, cfg_retries, retries,
                   delay_str, delay, step, easyhandle, err, err_str, lastfailedstep, speed,
                   attempts>>
    /\ UNCHANGED <<failing, timeout>>
    /\ UNCHANGED purevars

\* while (ZBX_IS_RUNNING() && SUCCEED == zbx_dc_httptest_next(...)): next test
LoopNext ==
    /\ pc = "cond"
    /\ running
    /\ \E id \in due : Lease(id)
    /\ pc' = "select"
    /\ UNCHANGED <<running, queued, um_handle, httptests_count, cfg_retries, retries,
                   delay_str, delay, step, easyhandle, err, err_str, lastfailedstep, speed,
                   attempts>>
    /\ UNCHANGED <<failing, timeout>>
    /\ UNCHANGED purevars

\* the loop ends; the user-macro handle is closed and the count returned
LoopExit ==
    /\ pc = "cond"
    /\ ~running \/ due = {}
    /\ um_handle' = FALSE
    /\ pc' = "done"
    /\ UNCHANGED <<running, due, queued, httptestid, httptests_count, cfg, retries, delay,
                   step, easyhandle, err, err_str, lastfailedstep, speed, attempts, log>>
    /\ UNCHANGED <<failing, timeout>>
    /\ UNCHANGED purevars

Next ==
    \/ Shutdown
    \/ StartNone
    \/ StartLease
    \/ SelectNoRow
    \/ SelectLoadFail
    \/ SelectLoadOk
    \/ ValidateDelay
    \/ OpenDriver
    \/ FetchStep
    \/ PrepareStep
    \/ Perform
    \/ Evaluate
    \/ StepEnd
    \/ Clean
    \/ EmitTest
    \/ Requeue
    \/ LoopNext
    \/ LoopExit

Spec == Init /\ [][Next]_vars

TypeOK ==
    /\ pc \in {"start", "select", "delay", "open", "fetch", "prepare", "perform", "eval",
               "step_end", "clean", "emit", "queue", "cond", "done"}
    /\ running \in BOOLEAN
    /\ due \subseteq TestIds
    /\ httptestid \in 0..NumTests
    /\ result \subseteq StepNos
    /\ db_httpstep_no \in 0..MaxNo
    /\ easyhandle \in BOOLEAN
    /\ err \in {CURLE_OK, CURLE_FAIL}
    /\ lastfailedstep \in -1..MaxNo

\* ------------------------------------------------------------ history views
Events(kind) == {i \in DOMAIN log : log[i].e = kind}
Count(kind) == Cardinality(Events(kind))
StepErrors == {log[i].no : i \in Events("step_error")}
SetupFailed == Events("delay_invalid") # {} \/ Events("open_failed") # {}
InRunner == pc \in {"delay", "open", "fetch", "prepare", "perform", "eval", "step_end",
                    "clean", "emit"}
\* the runner has returned for the leased test
Returned == load = "ok" /\ pc \in {"queue", "cond", "done"}
\* the loop body has ended for the leased test
BodyEnded == httptestid # 0 /\ pc \in {"cond", "done"}
\* perform attempts a step can make when the counter is r at its first attempt
Available(r) == IF r > 1 THEN r ELSE 1

\* C1: every invocation of process_httptest makes exactly one call of
\* process_test_data, followed by exactly one flush of the preprocessing
\* sink, on every path through the runner; nothing is emitted at test level
\* before the runner reaches its last block.
C1_OneEmissionThenFlush ==
    /\ InRunner => Count("test_data") = 0 /\ Count("flush") = 0
    /\ Returned =>
          /\ Count("test_data") = 1
          /\ Count("flush") = 1
          /\ \A i \in Events("test_data") : i + 1 \in Events("flush")

\* C1 witness: the runner returned after the step loop read the running flag
\* as false on its first row, leaving row 2 unfetched; one emission and one
\* flush happened.
C1_Witness ==
    /\ pc = "queue"
    /\ ~running
    /\ Count("session_open") = 1
    /\ Count("dispatch") = 0
    /\ result = {2}
    /\ err_str = NULL
    /\ Count("test_data") = 1
    /\ Count("flush") = 1

\* C2: when httptest_load_pairs fails for a leased test, one test-level tuple
\* is still emitted, with lastfailedstep = 1, an error string and speed 0.
C2_LoadFailureEmits ==
    (BodyEnded /\ load = "loadfail") =>
        /\ Count("test_data") = 1
        /\ \A i \in Events("test_data") :
              /\ log[i].lastfailedstep = 1
              /\ log[i].err_str # NULL
              /\ log[i].speed_download = 0

\* C3: every leased test whose row exists is requeued exactly once before the
\* loop leases the next test or returns, with the resolved delay or with
\* ZBX_DEFAULT_INTERVAL when the delay is invalid.
C3_RequeuedOnce ==
    (BodyEnded /\ load \in {"ok", "loadfail"}) =>
        /\ Count("queue") = 1
        /\ Len(queued[httptestid]) = 1
        /\ \A i \in Events("queue") :
              log[i].delay \in {ZBX_DEFAULT_INTERVAL} \cup
                               {zbx_is_time_suffix(d) : d \in DelayStrings}

\* C4 as stated: at the test-level emission lastfailedstep = 0 iff the error
\* string is empty iff no executed step produced an error; a step error makes
\* lastfailedstep the no of that step, the only failing one.
C4_Original ==
    \A i \in Events("test_data") :
        /\ (log[i].lastfailedstep = 0) <=> (log[i].err_str = NULL)
        /\ (log[i].err_str = NULL) <=> (StepErrors = {})
        /\ StepErrors # {} => StepErrors = {log[i].lastfailedstep}

\* C4 as amended: at the test-level emission lastfailedstep = 0 iff the error
\* string is empty iff neither an executed step nor the set-up of the test
\* (delay validation, opening the driver session) produced an error; a step
\* error makes lastfailedstep the no of that step, the only failing one, and
\* a set-up error makes it 1.
C4_LastFailedStep ==
    \A i \in Events("test_data") :
        /\ (log[i].lastfailedstep = 0) <=> (log[i].err_str = NULL)
        /\ (log[i].err_str = NULL) <=> (StepErrors = {} /\ ~SetupFailed)
        /\ StepErrors # {} => StepErrors = {log[i].lastfailedstep}
        /\ SetupFailed => StepErrors = {} /\ log[i].lastfailedstep = 1

\* C4 witness: the second step failed after a first one succeeded, and the
\* emission reports it.
C4_Witness ==
    /\ Returned
    /\ Count("dispatch") = 2
    /\ StepErrors = {2}
    /\ \E i \in Events("test_data") : log[i].lastfailedstep = 2 /\ log[i].err_str # NULL

\* C5: with an invalid delay string no driver session is opened and no step
\* is dispatched or performed; the emission carries lastfailedstep = 1 and
\* the error `update interval "<delay>" is invalid`; no emitted
\* lastfailedstep is negative; the test is requeued with ZBX_DEFAULT_INTERVAL.
C5_InvalidDelay ==
    /\ \A i \in Events("test_data") : log[i].lastfailedstep >= 0
    /\ (load = "ok" /\ zbx_is_time_suffix(delay_str) < 0 /\ pc \notin {"delay", "select"}) =>
          /\ Events("session_open") = {} /\ ~easyhandle
          /\ Events("dispatch") = {} /\ Events("perform") = {} /\ Events("step_data") = {}
          /\ \A i \in Events("test_data") :
                /\ log[i].lastfailedstep = 1
                /\ log[i].err_str = "update interval \"" \o delay_str \o "\" is invalid"
          /\ Returned => Count("test_data") = 1
          /\ \A i \in Events("queue") : log[i].delay = ZBX_DEFAULT_INTERVAL
          /\ BodyEnded => queued[httptestid] = <<ZBX_DEFAULT_INTERVAL>>

\* C5 witness: a test with delay "abc" and step rows went through the loop body.
C5_Witness ==
    /\ pc = "cond"
    /\ load = "ok"
    /\ delay_str = "abc"
    /\ result # {}
    /\ queued[httptestid] = <<ZBX_DEFAULT_INTERVAL>>

\* C6: when opening the driver session fails, no step is dispatched or
\* performed, the emission carries speed 0, lastfailedstep 1 and an error
\* string, and the test is requeued with its resolved delay.
C6_OpenFailure ==
    Events("open_failed") # {} =>
        /\ Events("dispatch") = {} /\ Events("perform") = {} /\ Events("step_data") = {}
        /\ \A i \in Events("test_data") :
              /\ log[i].lastfailedstep = 1
              /\ log[i].err_str \in OpenErrors
              /\ log[i].speed_download = 0
        /\ Returned => Count("test_data") = 1
        /\ \A i \in Events("queue") : log[i].delay = zbx_is_time_suffix(delay_str)
        /\ BodyEnded => queued[httptestid] = <<zbx_is_time_suffix(delay_str)>>

\* C6 witness: the TLS preparation failed for a test with step rows, and the
\* test went through the loop body.
C6_Witness ==
    /\ pc = "cond"
    /\ Events("open_failed") # {}
    /\ err_str = "ssl error"
    /\ result # {}
    /\ Count("test_data") = 1
    /\ Count("queue") = 1

\* C7: a step whose performs fail at transport level gets retries + 1
\* attempts: the step ends with a transport error only after cfg_retries + 1
\* failed performs.
C7_RetriesPlusOne ==
    (pc = "eval" /\ err = CURLE_FAIL) => attempts = cfg_retries + 1

\* C8: the perform attempts available to a step at its first attempt depend
\* only on the configured retries, not on what earlier steps consumed.
C8_BudgetPerStep ==
    (pc = "perform" /\ attempts = 0) => Available(retries) = Available(cfg_retries)

\* C9: the retry budget is consumed only by transport failures: the counter
\* is the configured value minus the failed performs of this execution, and
\* a perform that returned CURLE_OK is the last perform of its step, whatever
\* the evaluation of the response finds.
C9_BudgetTransportOnly ==
    /\ (load = "ok" /\ pc # "select") =>
          retries = cfg_retries -
                    Cardinality({i \in Events("perform") : log[i].code = CURLE_FAIL})
    /\ \A i, j \in Events("perform") :
          (i < j /\ log[i].code = CURLE_OK) => log[j].no # log[i].no
    /\ \A i \in Events("step_data") :
          /\ i > 1
          /\ log[i - 1].e = "perform"
          /\ log[i - 1].code = CURLE_OK
          /\ log[i - 1].no = log[i].no

\* C9 witness: a perform returned CURLE_OK after a failed one, the evaluation
\* found a status code mismatch, and the counter lost one retry only.
C9_Witness ==
    /\ pc = "step_end"
    /\ err_str = "response code did not match any of the required status codes"
    /\ attempts = 2
    /\ cfg_retries = 2
    /\ retries = 1

\* C10: steps are dispatched in strictly ascending no order, each perform
\* belongs to the step dispatched last, and execution is fail-fast: after a
\* step records an error nothing is dispatched, performed or emitted for a
\* step, and lastfailedstep is the no of that step once the loop has ended.
C10_AscendingFailFast ==
    /\ \A i, j \in Events("dispatch") : i < j => log[i].no < log[j].no
    /\ \A i \in Events("perform") :
          \E d \in Events("dispatch") :
              /\ d < i
              /\ log[d].no = log[i].no
              /\ \A k \in Events("dispatch") : k < i => k <= d
    /\ \A i \in Events("step_error") :
          \A j \in DOMAIN log :
              j > i => log[j].e \notin {"dispatch", "perform", "step_data", "step_error"}
    /\ (StepErrors # {} /\ pc \in {"clean", "emit", "queue", "cond", "done"}) =>
          StepErrors = {lastfailedstep}

\* C10 witness: step 1 failed with a step 2 row still waiting, and the runner
\* returned without dispatching step 2.
C10_Witness ==
    /\ pc = "queue"
    /\ running
    /\ StepErrors = {1}
    /\ result = {2}
    /\ Count("dispatch") = 1
    /\ lastfailedstep = 1

\* the sum of the speeds emitted for the steps whose index is in S
RECURSIVE SumSpeeds(_)
SumSpeeds(S) ==
    IF S = {} THEN 0
    ELSE LET i == CHOOSE x \in S : TRUE
         IN  log[i].stat.speed_download + SumSpeeds(S \ {i})

\* the steps whose speed measurement was fetched
SpeedFetched == {i \in Events("step_data") : log[i].speed_ok}

\* C11: the test-level speed is the arithmetic mean of the per-step speeds
\* over exactly the steps whose speed was fetched (sum divided by count), and
\* 0 when there is no such step; a step whose speed fetch failed contributes
\* neither to the sum nor to the count.
C11_MeanOfFetchedSpeeds ==
    \A i \in Events("test_data") :
        IF SpeedFetched = {}
        THEN log[i].speed_download = 0
        ELSE log[i].speed_download * Cardinality(SpeedFetched) = SumSpeeds(SpeedFetched)

\* the current step was performed with CURLE_OK and has been evaluated
Evaluated == pc = "step_end" /\ attempts > 0 /\ err = CURLE_OK

\* the step_data events of step no
StepData(no) == {i \in Events("step_data") : log[i].no = no}

\* C12: every step whose perform returned CURLE_OK gets exactly one call of
\* process_step_data, right after that perform and with the response code of
\* the transfer, also when the evaluation of the step records an error: a
\* status code mismatch on a 200 response still emits rspcode 200 for the
\* step the test reports as lastfailedstep.
C12_StepDataOnce ==
    /\ \A i \in Events("perform") :
          log[i].code = CURLE_OK =>
              IF i = Len(log)
              THEN pc = "eval"
              ELSE log[i + 1].e = "step_data" /\ log[i + 1].no = log[i].no
    /\ \A no \in StepNos : Cardinality(StepData(no)) <= 1
    /\ Evaluated =>
          /\ Cardinality(StepData(db_httpstep_no)) = 1
          /\ \A i \in StepData(db_httpstep_no) :
                /\ log[i].stat.rspcode = (IF "rspcode" \in failing THEN 0 ELSE 200)
                /\ log[i].speed_ok <=> "speed" \notin failing
    /\ \A i \in Events("test_data") :
          log[i].err_str = "response code did not match any of the required status codes" =>
              /\ Cardinality(StepData(log[i].lastfailedstep)) = 1
              /\ \A j \in StepData(log[i].lastfailedstep) : log[j].stat.rspcode = 200

\* C12 witness: step 2 answered 200 against a status code list without 200;
\* its rspcode was emitted and the test reports lastfailedstep = 2.
C12_Witness ==
    /\ Returned
    /\ \E i \in Events("test_data") :
          /\ log[i].lastfailedstep = 2
          /\ log[i].err_str = "response code did not match any of the required status codes"
    /\ \E j \in StepData(2) : log[j].stat.rspcode = 200

\* the checks of the evaluation in the order of the claim, and their errors
ClaimOrder == <<"status", "required", "tvars", "svars">>
ErrorOf(check) ==
    CASE check = "status" -> "response code did not match any of the required status codes"
      [] check = "required" -> "required pattern was not found"
      [] check = "tvars" -> "error in scenario variables"
      [] check = "svars" -> "error in step variables"

Emissions == Events("step_data") \cup Events("test_data") \cup Events("flush")

\* the order of the emissions of one test
EmissionOrder ==
    /\ \A i \in Events("step_data") : \A j \in Events("dispatch") :
          log[j].no > log[i].no => i < j
    /\ \A j \in Events("dispatch") : \A p \in Events("perform") :
          (log[p].code = CURLE_OK /\ log[p].no < log[j].no) => StepData(log[p].no) # {}
    /\ \A i \in Events("step_data") : \A j \in Events("test_data") : i < j
    /\ \A j \in Events("test_data") : \A i \in Events("flush") : j < i
    /\ \A i \in Events("flush") : \A j \in Emissions : j <= i
    /\ Count("test_data") <= 1 /\ Count("flush") <= 1

\* C15: the per-step metrics of a step are submitted before any later step is
\* dispatched, the test-level metrics after every per-step metric of the test,
\* the flush after the test-level metrics and after it nothing more of the
\* test; and the next test is leased only when the emissions of the current
\* one are closed by the flush (or none was made), so that all emissions of
\* one test precede all emissions of the next.
C15_EmissionOrder ==
    /\ []EmissionOrder
    /\ [][httptestid' # httptestid =>
            (pc = "start" \/ (pc = "cond" /\ (Emissions = {} \/ Count("flush") = 1)))]_vars

\* C15 witness: the second test of the pass has emitted two steps, its
\* test-level metrics and the flush, after the first test was put back.
C15_Witness ==
    /\ httptests_count = 1
    /\ httptestid = 2
    /\ Count("step_data") = 2
    /\ Count("dispatch") = 2
    /\ Count("flush") = 1
    /\ pc = "queue"

\* a step is dispatched only by a loop head that read the running flag true
ReadBeforeDispatch ==
    [][Count("dispatch")' > Count("dispatch") => running]_vars

\* a perform has returned for the current step and the retry loop is about to
\* perform again
AfterPerform == pc = "perform" /\ attempts > 0

\* a test whose steps all succeeded emits no failed step and no error,
\* whether or not the step loop was ended by the shutdown
NoErrorFromShutdown ==
    \A i \in Events("test_data") :
        (StepErrors = {} /\ ~SetupFailed) =>
            (log[i].lastfailedstep = 0 /\ log[i].err_str = NULL)

\* C16: the running flag is read before each step dispatch and after each
\* perform, and a read of false ends the step loop: no step is dispatched and
\* no request is performed once the flag was read false, and a test whose
\* steps all succeeded emits lastfailedstep = 0 and no error.
C16_FlagReadAfterPerform ==
    /\ ReadBeforeDispatch
    /\ [][(AfterPerform /\ ~running) => Count("perform")' = Count("perform")]_vars
    /\ []NoErrorFromShutdown

\* a test is leased by this step
Leased == httptestid' # httptestid

\* process_httptests() has returned
SchedulerReturned == pc = "done"

\* C17: the scheduler leases the soonest-due test, at entry or in a loop
\* condition that read the running flag true, and every leased test enters the
\* loop body; it returns only when nothing is due or the flag is false, a
\* leased test whose configuration loaded has been executed and put back by
\* then, and when nothing is due at entry it returns 0 and the user-macro
\* handle was never opened.
C17_SchedulerLoop ==
    /\ [][Leased => /\ httptestid' = Min(due)
                    /\ pc = "start" \/ (pc = "cond" /\ running)
                    /\ pc' = "select"]_vars
    /\ [](SchedulerReturned => (due = {} \/ ~running))
    /\ []((SchedulerReturned /\ load = "ok") =>
             (Count("test_data") = 1 /\ Count("queue") = 1))
    /\ [](httptestid = 0 =>
             /\ pc \in {"start", "done"}
             /\ ~um_handle
             /\ httptests_count = 0
             /\ SchedulerReturned => due = {})

\* C17 witness: the shutdown ended the loop after the first test, with the
\* second test still due and never leased.
C17_Witness ==
    /\ SchedulerReturned
    /\ ~running
    /\ due = {2}
    /\ httptestid = 1
    /\ httptests_count = 1

\* the sessions curl_easy_init() created for the leased test
SessionsOpened ==
    Events("session_open") \cup {i \in Events("open_failed") : log[i].easyhandle}

\* the runner went past delay validation and tried to open the driver
OpenAttempted == Events("session_open") \cup Events("open_failed") # {}

\* curl_easy_init() returned NULL
InitFailed == \E i \in Events("open_failed") : ~log[i].easyhandle

\* every request is performed on the open session, the session is destroyed
\* before the test-level emission, and none lives outside the runner
SessionScope ==
    /\ Cardinality(SessionsOpened) <= 1
    /\ Count("session_close") <= 1
    /\ Events("delay_invalid") # {} => ~OpenAttempted
    /\ \A p \in Events("perform") :
          /\ \E o \in Events("session_open") : o < p
          /\ \A c \in Events("session_close") : p < c
    /\ \A c \in Events("session_close") : \E o \in SessionsOpened : o < c
    /\ \A t \in Events("test_data") :
          /\ SessionsOpened # {} => \E c \in Events("session_close") : c < t
          /\ ~easyhandle
    /\ easyhandle <=> (SessionsOpened # {} /\ Count("session_close") = 0)
    /\ pc \in {"start", "select", "delay", "emit", "queue", "cond", "done"} => ~easyhandle

\* C19 as stated: every execution that passes delay validation opens exactly
\* one driver session, all its requests are performed on it and it is
\* destroyed before the test-level emission.
C19_Original ==
    /\ SessionScope
    /\ OpenAttempted => Cardinality(SessionsOpened) = 1

\* C19: an execution that passes delay validation opens exactly one driver
\* session unless curl_easy_init() fails, and then none; all its requests are
\* performed on that session, after it was opened and before it is destroyed;
\* the session is destroyed before the test-level emission and no session
\* exists outside the runner, so none is carried into another test.
C19_OneSessionPerTest ==
    [](/\ SessionScope
       /\ OpenAttempted => Cardinality(SessionsOpened) = (IF InitFailed THEN 0 ELSE 1))

\* C19 witness: both steps were performed on the one session, which was
\* destroyed before the test-level emission.
C19_Witness ==
    /\ Count("session_open") = 1
    /\ {log[p].no : p \in Events("perform")} = {1, 2}
    /\ Count("session_close") = 1
    /\ Count("test_data") = 1
    /\ ~easyhandle

\* the timeout errors a step can end with
TimeoutErrors ==
    {TimeoutInvalid(b) : b \in TimeoutStrings} \cup {TimeoutOutOfBounds(b) : b \in TimeoutStrings}

\* the step the runner failed on with a timeout error
TimeoutFailed == {i \in Events("step_error") : err_str \in TimeoutErrors}

\* a timeout error is the error of a rejected timeout only, a request is
\* prepared only with a timeout in 1..3600, and the step that failed on its
\* timeout was not performed, is the last one dispatched and is the one
\* lastfailedstep and the test-level emission name
TimeoutChecked ==
    /\ (pc = "perform" /\ attempts = 0) => timeout \in 1..3600
    /\ err_str \in TimeoutErrors =>
          /\ \A b \in TimeoutStrings :
                /\ err_str = TimeoutInvalid(b) => zbx_is_time_suffix(b) < 0
                /\ err_str = TimeoutOutOfBounds(b) =>
                      (zbx_is_time_suffix(b) >= 0 /\ zbx_is_time_suffix(b) \notin 1..3600)
          /\ \A i \in TimeoutFailed :
                /\ \A p \in Events("perform") : log[p].no # log[i].no
                /\ \A d \in Events("dispatch") : d < i
                /\ pc \in {"clean", "emit", "queue", "cond", "done"} => lastfailedstep = log[i].no
                /\ \A t \in Events("test_data") :
                      log[t].lastfailedstep = log[i].no /\ log[t].err_str = err_str

\* C21: a step whose timeout does not parse, or is below 1 or above 3600
\* seconds, ends with a timeout error and only such a step does (1 and 3600
\* are accepted: a request is prepared only with a timeout in 1..3600); the
\* step is never performed, no later step is dispatched, and lastfailedstep
\* is its no.
C21_TimeoutBounds == []TimeoutChecked

\* C21 witness: step 1 has the timeout 3601; it was not performed, the row of
\* step 2 was never fetched and the test-level emission names step 1.
C21_Witness ==
    /\ Count("test_data") = 1
    /\ err_str = TimeoutOutOfBounds("3601")
    /\ TimeoutFailed # {}
    /\ lastfailedstep = 1
    /\ result = {2}
    /\ Count("perform") = 0

\* the step_error events of steps that failed before a perform returned
\* CURLE_OK: the error was not recorded by the evaluation of a response
FailedBeforeOk ==
    {i \in Events("step_error") : i = 1 \/ log[i - 1].e # "step_data"}

\* the perform events of step no
Performs(no) == {p \in Events("perform") : log[p].no = no}

NoStepDataOnFailure ==
    /\ \A j \in Events("step_data") :
          /\ j > 1
          /\ log[j - 1].e = "perform"
          /\ log[j - 1].no = log[j].no
          /\ log[j - 1].code = CURLE_OK
    /\ \A i \in FailedBeforeOk :
          /\ \A p \in Performs(log[i].no) : log[p].code # CURLE_OK
          /\ StepData(log[i].no) = {}
          /\ \A j \in Events("step_data") : j < i /\ log[j].no < log[i].no
          /\ \A t \in Events("test_data") :
                /\ i < t
                /\ log[t].lastfailedstep = log[i].no
                /\ log[t].err_str # NULL

MaxItems == 3

ZBX_HTTPITEM_TYPE_SPEED == "speed"
ZBX_HTTPITEM_TYPE_LASTSTEP == "laststep"
ZBX_HTTPITEM_TYPE_LASTERROR == "lasterror"

HttpItemTypes ==
    {ZBX_HTTPITEM_TYPE_SPEED, ZBX_HTTPITEM_TYPE_LASTSTEP, ZBX_HTTPITEM_TYPE_LASTERROR}

\* what DCconfig_get_items_by_itemids() reports for one item: an item that
\* passes every filter, and one item failing each filter in turn
DcItems ==
    {[errcode |-> "SUCCEED", status |-> "ACTIVE", host_status |-> "MONITORED", nodata |-> FALSE],
     [errcode |-> "FAIL", status |-> "ACTIVE", host_status |-> "MONITORED", nodata |-> FALSE],
     [errcode |-> "SUCCEED", status |-> "DISABLED", host_status |-> "MONITORED", nodata |-> FALSE],
     [errcode |-> "SUCCEED", status |-> "ACTIVE", host_status |-> "NOT_MONITORED", nodata |-> FALSE],
     [errcode |-> "SUCCEED", status |-> "ACTIVE", host_status |-> "MONITORED", nodata |-> TRUE]}

\* the rows of httptestitem for one test, with the cached item of each row
ItemRows ==
    UNION {[1..n -> [type : HttpItemTypes, item : DcItems]] : n \in 0..MaxItems}

\* the switch of the first loop: a lasterror row is passed over when there is
\* no error
item_selected_always(type, e) == TRUE

item_selected(type, e) ==
    ~(type = ZBX_HTTPITEM_TYPE_LASTERROR /\ e = NULL)

\* the first loop: the rows kept in types[] and itemids[]; itemid is the
\* position of the row in the select
RECURSIVE select_items(_, _, _, _)
select_items(rows, r, e, acc) ==
    IF r > Len(rows) THEN acc
    ELSE IF Len(acc) = MaxItems THEN acc
    ELSE IF ~item_selected(rows[r].type, e)
         THEN select_items(rows, r + 1, e, acc)
         ELSE select_items(rows, r + 1, e,
                           Append(acc, [type |-> rows[r].type, itemid |-> r, item |-> rows[r].item]))

\* the four filters of the second loop
item_active(item) ==
    /\ item.errcode = "SUCCEED"
    /\ item.status = "ACTIVE"
    /\ item.host_status = "MONITORED"
    /\ ~item.nodata

\* the value set for one kept row
item_value(type, in) ==
    CASE type = ZBX_HTTPITEM_TYPE_SPEED -> in.speed_download
      [] type = ZBX_HTTPITEM_TYPE_LASTSTEP -> in.lastfailedstep
      [] type = ZBX_HTTPITEM_TYPE_LASTERROR -> in.err_str

\* the second loop: the values handed to zbx_preprocess_item_value(), in order
RECURSIVE submit_items(_, _, _, _)
submit_items(kept, i, in, acc) ==
    IF i > Len(kept) THEN acc
    ELSE IF ~item_active(kept[i].item) THEN submit_items(kept, i + 1, in, acc)
    ELSE submit_items(kept, i + 1, in,
                      Append(acc, [itemid |-> kept[i].itemid, type |-> kept[i].type,
                                   value |-> item_value(kept[i].type, in)]))

TestDataInputs ==
    [lastfailedstep : 0..MaxNo,
     speed_download : Speeds,
     err_str : {NULL, ErrorOf("required")},
     rows : ItemRows]

InitTestData ==
    /\ InitMain
    /\ due = {}
    /\ fn_pc = "call"
    /\ fn_in \in TestDataInputs
    /\ fn_out = <<>>

process_test_data ==
    /\ fn_pc = "call"
    /\ fn_out' = submit_items(select_items(fn_in.rows, 1, fn_in.err_str, <<>>), 1, fn_in, <<>>)
    /\ fn_pc' = "done"
    /\ UNCHANGED <<mainvars, fn_in>>

NextTestData == process_test_data

SpecTestData == InitTestData /\ [][NextTestData]_vars

\* the values submitted for row r of the select
Submitted(r) == {k \in DOMAIN fn_out : fn_out[k].itemid = r}

\* C14: after process_test_data() a lasterror row has a value submitted if
\* and only if the error string is non-null and its item passes the four
\* activity filters, and that value is the error string; without an error no
\* lasterror value is submitted at all; a speed or laststep row whose item
\* passes the filters has its value (the speed, the last failed step)
\* submitted exactly once whether or not there was an error.
C14_LastErrorIffError ==
    fn_pc = "done" =>
        /\ \A r \in DOMAIN fn_in.rows :
              LET row == fn_in.rows[r] IN
              IF row.type = ZBX_HTTPITEM_TYPE_LASTERROR
              THEN /\ Submitted(r) # {} <=> (fn_in.err_str # NULL /\ item_active(row.item))
                   /\ \A k \in Submitted(r) : fn_out[k].value = fn_in.err_str
              ELSE /\ item_active(row.item) => Cardinality(Submitted(r)) = 1
                   /\ \A k \in Submitted(r) :
                         /\ item_active(row.item)
                         /\ fn_out[k].value = item_value(row.type, fn_in)
        /\ fn_in.err_str = NULL =>
              \A k \in DOMAIN fn_out : fn_out[k].type # ZBX_HTTPITEM_TYPE_LASTERROR

\* C14 witness: an execution without error whose three items all pass the
\* filters: the lasterror row comes first and is skipped, the two others are
\* submitted.
C14_Witness ==
    /\ fn_pc = "done"
    /\ fn_in.err_str = NULL
    /\ Len(fn_in.rows) = 3
    /\ fn_in.rows[1].type = ZBX_HTTPITEM_TYPE_LASTERROR
    /\ \A r \in 1..3 : item_active(fn_in.rows[r].item)
    /\ Submitted(1) = {}
    /\ Len(fn_out) = 2

\* ------------------------------------------------------------------
\* the request headers of a step, checked on their own
\* ------------------------------------------------------------------

\* Strings are sequences of tokens: a name, a value or a delimiter.
MaxHeaders == 2
COOKIE_HEADER_STR == <<"Cookie", ":">>
COOKIE_HEADER_STR_LEN == Len(COOKIE_HEADER_STR)
CRLF == "\r\n"

HeaderNames == {"Cookie", "X"}
HeaderValues == {"a", "b"}
HeaderPairs == UNION {[1..n -> [first : HeaderNames, second : HeaderValues]] : n \in 0..MaxHeaders}

\* httpstep_pairs_join(): key, value delimiter, value; the pair delimiter
\* between two pairs
RECURSIVE httpstep_pairs_join(_, _, _, _, _)
httpstep_pairs_join(str, value_delimiter, pair_delimiter, pairs, p) ==
    IF p > Len(pairs) THEN str
    ELSE httpstep_pairs_join(
             str \o (IF 1 # p THEN <<pair_delimiter>> ELSE <<>>)
                 \o <<pairs[p].first, value_delimiter, pairs[p].second>>,
             value_delimiter, pair_delimiter, pairs, p + 1)

\* the headers string built by httpstep_load_pairs() and httptest_load_pairs()
headers_string(pairs) == httpstep_pairs_join(<<>>, ":", CRLF, pairs, 1)

\* zbx_http_parse_header(): the lines of a headers string, empty lines skipped
RECURSIVE zbx_http_parse_header(_, _, _)
zbx_http_parse_header(headers, line, lines) ==
    IF headers = <<>>
    THEN IF line = <<>> THEN lines ELSE Append(lines, line)
    ELSE IF Head(headers) = CRLF
         THEN zbx_http_parse_header(Tail(headers), <<>>,
                                    IF line = <<>> THEN lines ELSE Append(lines, line))
         ELSE zbx_http_parse_header(Tail(headers), Append(line, Head(headers)), lines)

\* strncmp(COOKIE_HEADER_STR, line, COOKIE_HEADER_STR_LEN)
is_cookie_line(line) ==
    /\ Len(line) >= COOKIE_HEADER_STR_LEN
    /\ SubSeq(line, 1, COOKIE_HEADER_STR_LEN) = COOKIE_HEADER_STR

\* add_http_headers(): a Cookie: line replaces header_cookie, any other line
\* is appended to headers_slist
RECURSIVE add_http_headers(_, _, _)
add_http_headers(lines, n, req) ==
    IF n > Len(lines) THEN req
    ELSE IF is_cookie_line(lines[n])
         THEN add_http_headers(lines, n + 1,
                  [req EXCEPT !.header_cookie =
                                  SubSeq(lines[n], COOKIE_HEADER_STR_LEN + 1, Len(lines[n]))])
         ELSE add_http_headers(lines, n + 1,
                  [req EXCEPT !.headers_slist = Append(@, lines[n])])

NoHeaders == [headers_slist |-> <<>>, header_cookie |-> NULL]

\* variant: the headers of the test are added before those of the step
step_request_headers_merged(httpstep_headers, httptest_headers) ==
    add_http_headers(zbx_http_parse_header(httpstep_headers, <<>>, <<>>), 1,
        add_http_headers(zbx_http_parse_header(httptest_headers, <<>>, <<>>), 1, NoHeaders))

\* headers defined in a step overwrite headers defined in scenario
step_request_headers(httpstep_headers, httptest_headers) ==
    IF httpstep_headers # <<>>
    THEN add_http_headers(zbx_http_parse_header(httpstep_headers, <<>>, <<>>), 1, NoHeaders)
    ELSE IF httptest_headers # <<>>
    THEN add_http_headers(zbx_http_parse_header(httptest_headers, <<>>, <<>>), 1, NoHeaders)
    ELSE NoHeaders

InitHeaders ==
    /\ InitMain
    /\ due = {}
    /\ fn_pc = "call"
    /\ fn_in \in [step : HeaderPairs, test : HeaderPairs]
    /\ fn_out = <<>>

set_step_headers ==
    /\ fn_pc = "call"
    /\ fn_out' = step_request_headers(headers_string(fn_in.step), headers_string(fn_in.test))
    /\ fn_pc' = "done"
    /\ UNCHANGED <<mainvars, fn_in>>

NextHeaders == set_step_headers

SpecHeaders == InitHeaders /\ [][NextHeaders]_vars

\* the header fields of one scope that make the request: the lines of those
\* not named Cookie, and the value of the last one named Cookie
IsCookie(pair) == pair.first = "Cookie"
NotCookie(pair) == pair.first # "Cookie"
ScopeLines(pairs) ==
    LET kept == SelectSeq(pairs, NotCookie)
    IN [k \in DOMAIN kept |-> <<kept[k].first, ":", kept[k].second>>]
ScopeCookie(pairs) ==
    LET kept == SelectSeq(pairs, IsCookie)
    IN IF kept = <<>> THEN NULL ELSE <<kept[Len(kept)].second>>

\* C18: the header list and the cookie value of a request come from the
\* header fields of the step alone when the step has at least one, and from
\* those of the test alone otherwise; fields of the two scopes never reach
\* the same request.
C18_StepHeadersOverride ==
    fn_pc = "done" =>
        LET scope == IF Len(fn_in.step) > 0 THEN fn_in.step ELSE fn_in.test
        IN /\ fn_out.headers_slist = ScopeLines(scope)
           /\ fn_out.header_cookie = ScopeCookie(scope)

\* C18 witness: the test defines a cookie and a header, the step one other
\* header: the request carries the header of the step and no cookie.
C18_Witness ==
    /\ fn_pc = "done"
    /\ Len(fn_in.step) = 1 /\ fn_in.step[1] = [first |-> "X", second |-> "b"]
    /\ Len(fn_in.test) = 2 /\ fn_in.test[1].first = "Cookie" /\ fn_in.test[2].second = "a"
    /\ fn_out.header_cookie = NULL
    /\ fn_out.headers_slist = << <<"X", ":", "b">> >>

\* ------------------------------------------------------------------
\* the URL of a step, checked on its own
\* ------------------------------------------------------------------

MaxUrl == 5
MaxFields == 2

\* the pieces a raw URL is made of, and the query fields of a step
UrlTokens == {"http://t/p", "?", "x=1", "#", "frag"}
RawUrls == UNION {[1..n -> UrlTokens] : n \in 0..MaxUrl}
QueryFields == UNION {[1..n -> [first : {"y"}, second : {"2", "#"}]] : n \in 0..MaxFields}

\* strchr(): the position of the first c in str, 0 when there is none
strchr(str, c) ==
    IF \E i \in DOMAIN str : str[i] = c
    THEN Min({i \in DOMAIN str : str[i] = c})
    ELSE 0

\* zbx_http_url_encode(): reserved characters are percent-encoded
zbx_http_url_encode(str) ==
    CASE str = "#" -> "%23"
      [] str = "?" -> "%3F"
      [] str = "&" -> "%26"
      [] str = "=" -> "%3D"
      [] str = "2 3" -> "2%203"
      [] str = "p&w" -> "p%26w"
      [] str = "******" -> "%2A%2A%2A%2A%2A%2A"
      [] str = "{TOKEN}" -> "%7BTOKEN%7D"
      [] OTHER -> str

\* keys and values of query fields are encoded as the rows are read
encode_pairs(pairs) ==
    [p \in DOMAIN pairs |-> [first |-> zbx_http_url_encode(pairs[p].first),
                             second |-> zbx_http_url_encode(pairs[p].second)]]

\* variant: the delimiter is always '?'
compose_url_question(raw, query_fields) ==
    LET value == strchr(raw, "#")
        url == IF 0 # value THEN SubSeq(raw, 1, value - 1) ELSE raw
    IN IF 0 < Len(query_fields)
       THEN httpstep_pairs_join(url \o <<"?">>, "=", "&", query_fields, 1)
       ELSE url

\* httpstep_load_pairs(): the URL is created from the raw URL and query_fields
compose_url(raw, query_fields) ==
    LET value == strchr(raw, "#")
        url == IF 0 # value THEN SubSeq(raw, 1, value - 1) ELSE raw
        query_delimiter == IF 0 # strchr(url, "?") THEN "&" ELSE "?"
    IN IF 0 < Len(query_fields)
       THEN httpstep_pairs_join(url \o <<query_delimiter>>, "=", "&", query_fields, 1)
       ELSE url

InitUrl ==
    /\ InitMain
    /\ due = {}
    /\ fn_pc = "call"
    /\ fn_in \in [url : RawUrls, query_fields : QueryFields]
    /\ fn_out = <<>>

httpstep_load_url ==
    /\ fn_pc = "call"
    /\ fn_out' = compose_url(fn_in.url, encode_pairs(fn_in.query_fields))
    /\ fn_pc' = "done"
    /\ UNCHANGED <<mainvars, fn_in>>

NextUrl == httpstep_load_url

SpecUrl == InitUrl /\ [][NextUrl]_vars

\* the raw URL up to its first '#'
Truncated(raw) ==
    CHOOSE t \in {SubSeq(raw, 1, n) : n \in 0..Len(raw)} :
        /\ \A i \in DOMAIN t : t[i] # "#"
        /\ Len(t) = Len(raw) \/ raw[Len(t) + 1] = "#"

\* k1=v1&k2=v2... of the encoded fields, in the order of the rows
QueryString(fields) ==
    [i \in 1..(4 * Len(fields) - 1) |->
        LET p == (i + 3) \div 4
        IN CASE i % 4 = 1 -> zbx_http_url_encode(fields[p].first)
             [] i % 4 = 2 -> "="
             [] i % 4 = 3 -> zbx_http_url_encode(fields[p].second)
             [] OTHER -> "&"]

VarSteps == 3

\* a variable is defined by a literal value or by an extraction expression
REGEXP == "regex:token=(\\w+)"
VarName == "{TOKEN}"
VarDefs == {<<>>, <<[first |-> VarName, second |-> "lit"]>>, <<[first |-> VarName, second |-> REGEXP]>>}
StepVarDefs == {<<>>, <<[first |-> VarName, second |-> REGEXP]>>}

\* the page of a step: the token its response carries, or no token at all
NoToken == "none"
Pages == {"abc123", "xyz789", NoToken}

\* the texts of every step row: URL, raw posts and a header field value
StepUrl == <<"http://t/p?t=", VarName>>
StepPosts == <<"token=", VarName>>
StepField == <<VarName>>

\* http_substitute_variables(): every reference to a cached variable is
\* replaced by its value
http_substitute_variables(macros, data) ==
    [k \in DOMAIN data |->
        IF data[k] \in DOMAIN macros /\ macros[data[k]] # NULL THEN macros[data[k]]
        ELSE data[k]]

\* http_process_variables(): without a page the literal definitions are
\* cached, with a page the extraction expressions are evaluated against it
RECURSIVE http_process_variables(_, _, _, _)
http_process_variables(macros, variables, data, i) ==
    IF i > Len(variables) THEN [ret |-> "SUCCEED", macros |-> macros]
    ELSE IF variables[i].second = REGEXP
    THEN IF data = NULL THEN http_process_variables(macros, variables, data, i + 1)
         ELSE IF data = NoToken THEN [ret |-> "FAIL", macros |-> macros]
         ELSE http_process_variables([macros EXCEPT ![variables[i].first] = data],
                                     variables, data, i + 1)
    ELSE IF data = NULL
         THEN http_process_variables([macros EXCEPT ![variables[i].first] = variables[i].second],
                                     variables, data, i + 1)
         ELSE http_process_variables(macros, variables, data, i + 1)

\* variant: the URL of the step is sent as configured
step_texts_rawurl(macros) ==
    [url |-> StepUrl,
     posts |-> http_substitute_variables(macros, StepPosts),
     field |-> http_substitute_variables(macros, StepField)]

\* the URL, the raw posts and the field values of a step as they are sent
step_texts(macros) ==
    [url |-> http_substitute_variables(macros, StepUrl),
     posts |-> http_substitute_variables(macros, StepPosts),
     field |-> http_substitute_variables(macros, StepField)]

VarInputs ==
    [variables : VarDefs,
     steps : [1..VarSteps -> [variables : StepVarDefs, page : Pages, required_ok : BOOLEAN]]]

InitVars ==
    /\ InitMain
    /\ due = {}
    /\ fn_pc = "call"
    /\ fn_in \in VarInputs
    /\ fn_out = <<>>

\* process_httptests(): the literal variables of the test are cached before
\* the test runs
vars_first_pass ==
    /\ fn_pc = "call"
    /\ fn_out' = [macros |-> http_process_variables([n \in {VarName} |-> NULL],
                                                    fn_in.variables, NULL, 1).macros,
                  no |-> 0, wire |-> <<>>, captured |-> <<>>, err_str |-> NULL]
    /\ fn_pc' = "fetch"
    /\ UNCHANGED <<mainvars, fn_in>>

\* the step loop: the texts of the next step are substituted
vars_step_prepare ==
    /\ fn_pc = "fetch"
    /\ fn_out.no < VarSteps
    /\ fn_out' = [fn_out EXCEPT !.no = @ + 1,
                                !.wire = Append(@, step_texts(fn_out.macros))]
    /\ fn_pc' = "eval"
    /\ UNCHANGED <<mainvars, fn_in>>

\* the extraction pass of a step evaluates an expression on a page that has
\* the token
Extracts(s) ==
    /\ s.page # NoToken
    /\ \E k \in DOMAIN (fn_in.variables \o s.variables) :
          (fn_in.variables \o s.variables)[k].second = REGEXP

\* after the perform: the required pattern, then the variables of the
\* scenario, then those of the step, each only while there is no error
vars_step_extract ==
    /\ fn_pc = "eval"
    /\ LET s == fn_in.steps[fn_out.no]
           e1 == IF s.required_ok THEN NULL ELSE ErrorOf("required")
           r1 == IF e1 = NULL
                 THEN http_process_variables(fn_out.macros, fn_in.variables, s.page, 1)
                 ELSE [ret |-> "SUCCEED", macros |-> fn_out.macros]
           e2 == IF e1 = NULL /\ r1.ret = "FAIL" THEN ErrorOf("tvars") ELSE e1
           r2 == IF e2 = NULL
                 THEN http_process_variables(r1.macros, s.variables, s.page, 1)
                 ELSE [ret |-> "SUCCEED", macros |-> r1.macros]
           e3 == IF e2 = NULL /\ r2.ret = "FAIL" THEN ErrorOf("svars") ELSE e2
       IN /\ fn_out' = [fn_out EXCEPT !.macros = r2.macros,
                                      !.captured = Append(@, IF e1 = NULL /\ Extracts(s)
                                                                THEN r2.macros[VarName]
                                                                ELSE NULL),
                                      !.err_str = e3]
          /\ fn_pc' = IF e3 = NULL THEN "fetch" ELSE "done"
    /\ UNCHANGED <<mainvars, fn_in>>

\* no step row is left
vars_done ==
    /\ fn_pc = "fetch"
    /\ fn_out.no = VarSteps
    /\ fn_pc' = "done"
    /\ UNCHANGED <<mainvars, fn_in, fn_out>>

NextVars == vars_first_pass \/ vars_step_prepare \/ vars_step_extract \/ vars_done

SpecVars == InitVars /\ [][NextVars]_vars

\* the last step before j whose extraction pass captured a value (0: none)
LastCapture(j) ==
    IF \E i \in 1..(j - 1) : fn_out.captured[i] # NULL
    THEN CHOOSE i \in 1..(j - 1) :
             /\ fn_out.captured[i] # NULL
             /\ \A k \in (i + 1)..(j - 1) : fn_out.captured[k] = NULL
    ELSE 0

\* the texts of a step with the value v in place of the reference
TextsWith(v) ==
    [url |-> <<"http://t/p?t=", v>>, posts |-> <<"token=", v>>, field |-> <<v>>]

\* C22 as stated: the value captured by step i is in the URL, the raw body
\* and the fields of every later step j > i.
C22_Original ==
    fn_pc # "call" =>
        \A j \in DOMAIN fn_out.wire : \A i \in 1..(j - 1) :
            (i \in DOMAIN fn_out.captured /\ fn_out.captured[i] # NULL) =>
                fn_out.wire[j] = TextsWith(fn_out.captured[i])

\* C22: the value captured by the extraction pass of step i, from a variable
\* of the test or of the step, is in the URL, the raw body and the fields of
\* every later step j > i up to the next step that captures the variable
\* again: each step is sent with the value of the last capture before it.
C22_CapturedValueFlows ==
    fn_pc # "call" =>
        \A j \in DOMAIN fn_out.wire :
            LastCapture(j) # 0 => fn_out.wire[j] = TextsWith(fn_out.captured[LastCapture(j)])

\* C22 witness: the token abc123 captured in step 1 by a variable of the step
\* is in the URL of steps 2 and 3, no other capture being made.
C22_Witness ==
    /\ fn_pc = "done"
    /\ fn_in.variables = <<>>
    /\ Len(fn_out.wire) = 3
    /\ fn_out.captured[1] = "abc123"
    /\ fn_out.captured[2] = NULL
    /\ fn_out.wire[2].url = <<"http://t/p?t=", "abc123">>
    /\ fn_out.wire[3].url = <<"http://t/p?t=", "abc123">>

\* ------------------------------------------------------------------
\* httptest_load_pairs() and httpstep_load_pairs(): the field rows of a
\* test and of one of its steps, checked on their own
\* ------------------------------------------------------------------

MaxRows == 2

ZBX_HTTPFIELD_HEADER == "header"
ZBX_HTTPFIELD_VARIABLE == "variable"
ZBX_HTTPFIELD_POST_FIELD == "post_field"
ZBX_HTTPFIELD_QUERY_FIELD == "query_field"
ZBX_POSTTYPE_RAW == "raw"
ZBX_POSTTYPE_FORM == "form"

\* a secret user macro, the text shown for it and its value
SecretMacro == "{$PW}"
MaskedValue == "******"
SecretValue == "p&w"

\* zbx_substitute_simple_macros(): secret macros stay redacted
zbx_substitute_simple_macros(str) == IF str = SecretMacro THEN MaskedValue ELSE str

\* zbx_substitute_simple_macros_unmasked(): secret macros are resolved
zbx_substitute_simple_macros_unmasked(str) == IF str = SecretMacro THEN SecretValue ELSE str

\* the rows of httptest_field and of httpstep_field
FieldNames == {SecretMacro, VarName}
FieldValues == {"2 3", SecretMacro, VarName}
StepFieldTypes ==
    {ZBX_HTTPFIELD_HEADER, ZBX_HTTPFIELD_VARIABLE, ZBX_HTTPFIELD_POST_FIELD, ZBX_HTTPFIELD_QUERY_FIELD}
StepRows == UNION {[1..n -> [name : FieldNames, value : FieldValues, type : StepFieldTypes]] : n \in 0..MaxRows}
TestRows ==
    {<<>>,
     <<[name |-> VarName, value |-> "lit", type |-> ZBX_HTTPFIELD_VARIABLE]>>,
     <<[name |-> SecretMacro, value |-> SecretMacro, type |-> ZBX_HTTPFIELD_HEADER],
       [name |-> VarName, value |-> SecretMacro, type |-> ZBX_HTTPFIELD_VARIABLE]>>,
     <<[name |-> VarName, value |-> "lit", type |-> ZBX_HTTPFIELD_VARIABLE],
       [name |-> VarName, value |-> VarName, type |-> ZBX_HTTPFIELD_HEADER]>>,
     <<[name |-> SecretMacro, value |-> VarName, type |-> ZBX_HTTPFIELD_VARIABLE]>>,
     <<[name |-> VarName, value |-> "lit", type |-> ZBX_HTTPFIELD_VARIABLE],
       [name |-> VarName, value |-> "2 3", type |-> ZBX_HTTPFIELD_QUERY_FIELD]>>}
RawPosts == {<<>>, <<"x=", VarName>>}

\* the example of the form body: the post fields (a, 1) and (b, '2 3')
ExampleRows ==
    <<[name |-> "a", value |-> "1", type |-> ZBX_HTTPFIELD_POST_FIELD],
      [name |-> "b", value |-> "2 3", type |-> ZBX_HTTPFIELD_POST_FIELD]>>

\* the URL of the step row
FieldsUrl == <<"http://t/p/", VarName>>

\* http_substitute_variables() on one name or value
substitute_variables(macros, str) == http_substitute_variables(macros, <<str>>)[1]

\* httptest_load_pairs(): the name and the value of one row
httptest_pair(row) ==
    [first |-> IF ZBX_HTTPFIELD_VARIABLE # row.type
               THEN zbx_substitute_simple_macros(row.name)
               ELSE row.name,
     second |-> zbx_substitute_simple_macros_unmasked(row.value)]

\* httptest_load_pairs(): the rows in the order of httptest_fieldid; a row
\* that is neither a header nor a variable fails the load
RECURSIVE httptest_load_pairs(_, _, _, _)
httptest_load_pairs(rows, i, headers, variables) ==
    IF i > Len(rows)
    THEN [ret |-> "SUCCEED", headers |-> headers_string(headers), variables |-> variables]
    ELSE CASE rows[i].type = ZBX_HTTPFIELD_HEADER ->
                  httptest_load_pairs(rows, i + 1, Append(headers, httptest_pair(rows[i])), variables)
           [] rows[i].type = ZBX_HTTPFIELD_VARIABLE ->
                  httptest_load_pairs(rows, i + 1, headers, Append(variables, httptest_pair(rows[i])))
           [] OTHER -> [ret |-> "FAIL", headers |-> <<>>, variables |-> variables]

\* variant: the variables are substituted in the rows of every type
httpstep_pair_substall(macros, row) ==
    LET key == substitute_variables(macros, IF ZBX_HTTPFIELD_VARIABLE # row.type
                                            THEN zbx_substitute_simple_macros(row.name)
                                            ELSE row.name)
        value == substitute_variables(macros, zbx_substitute_simple_macros_unmasked(row.value))
        encoded == row.type \in {ZBX_HTTPFIELD_QUERY_FIELD, ZBX_HTTPFIELD_POST_FIELD}
    IN [first |-> IF encoded THEN zbx_http_url_encode(key) ELSE key,
        second |-> IF encoded THEN zbx_http_url_encode(value) ELSE value]

\* variant: no variable is substituted
httpstep_pair_nosubst(macros, row) ==
    LET key == IF ZBX_HTTPFIELD_VARIABLE # row.type
               THEN zbx_substitute_simple_macros(row.name)
               ELSE row.name
        value == zbx_substitute_simple_macros_unmasked(row.value)
        encoded == row.type \in {ZBX_HTTPFIELD_QUERY_FIELD, ZBX_HTTPFIELD_POST_FIELD}
    IN [first |-> IF encoded THEN zbx_http_url_encode(key) ELSE key,
        second |-> IF encoded THEN zbx_http_url_encode(value) ELSE value]

\* httpstep_load_pairs(): the name and the value of one row
httpstep_pair(macros, row) ==
    LET unmasked == zbx_substitute_simple_macros_unmasked(row.value)
        key == IF ZBX_HTTPFIELD_VARIABLE # row.type
               THEN substitute_variables(macros, zbx_substitute_simple_macros(row.name))
               ELSE row.name
        value == IF ZBX_HTTPFIELD_VARIABLE # row.type
                 THEN substitute_variables(macros, unmasked)
                 ELSE unmasked
        encoded == row.type \in {ZBX_HTTPFIELD_QUERY_FIELD, ZBX_HTTPFIELD_POST_FIELD}
    IN [first |-> IF encoded THEN zbx_http_url_encode(key) ELSE key,
        second |-> IF encoded THEN zbx_http_url_encode(value) ELSE value]

\* httpstep_load_pairs(): the rows in the order of httpstep_fieldid, each
\* appended to the vector of its type
RECURSIVE httpstep_load_rows(_, _, _, _)
httpstep_load_rows(macros, rows, i, v) ==
    IF i > Len(rows) THEN [v EXCEPT !.ret = "SUCCEED"]
    ELSE CASE rows[i].type = ZBX_HTTPFIELD_HEADER ->
                  httpstep_load_rows(macros, rows, i + 1,
                                     [v EXCEPT !.headers = Append(@, httpstep_pair(macros, rows[i]))])
           [] rows[i].type = ZBX_HTTPFIELD_VARIABLE ->
                  httpstep_load_rows(macros, rows, i + 1,
                                     [v EXCEPT !.variables = Append(@, httpstep_pair(macros, rows[i]))])
           [] rows[i].type = ZBX_HTTPFIELD_QUERY_FIELD ->
                  httpstep_load_rows(macros, rows, i + 1,
                                     [v EXCEPT !.query_fields = Append(@, httpstep_pair(macros, rows[i]))])
           [] rows[i].type = ZBX_HTTPFIELD_POST_FIELD ->
                  httpstep_load_rows(macros, rows, i + 1,
                                     [v EXCEPT !.post_fields = Append(@, httpstep_pair(macros, rows[i]))])
           [] OTHER -> [v EXCEPT !.ret = "FAIL"]

\* a body: no body at all, or its text
NoPosts == [null |-> TRUE, str |-> <<>>]
PostsOf(str) == [null |-> FALSE, str |-> str]

\* process_httptest(): the raw posts of the step row are expanded for a raw
\* body only
db_httpstep_posts(macros, post_type, posts) ==
    IF ZBX_POSTTYPE_RAW = post_type
    THEN PostsOf(http_substitute_variables(macros,
                     [k \in DOMAIN posts |-> zbx_substitute_simple_macros_unmasked(posts[k])]))
    ELSE NoPosts

\* variant: the body is the posts of the step row whatever the type
httpstep_posts_raw(post_type, posts, post_fields) == posts

\* httpstep_load_pairs(): POST data is the joined post fields or the raw data
httpstep_posts(post_type, posts, post_fields) ==
    IF ZBX_POSTTYPE_FORM = post_type
    THEN IF 0 < Len(post_fields)
         THEN PostsOf(httpstep_pairs_join(<<>>, "=", "&", post_fields, 1))
         ELSE NoPosts
    ELSE posts

\* process_httptest(): the value given to CURLOPT_POST
curlopt_post(posts) == IF ~posts.null /\ posts.str # <<>> THEN 1 ELSE 0

FieldInputs ==
    [test_rows : TestRows, step_rows : StepRows,
     post_type : {ZBX_POSTTYPE_RAW, ZBX_POSTTYPE_FORM}, posts : RawPosts]
    \cup {[test_rows |-> <<>>, step_rows |-> ExampleRows, post_type |-> t, posts |-> <<"x=", VarName>>] :
             t \in {ZBX_POSTTYPE_RAW, ZBX_POSTTYPE_FORM}}

\* the step before its rows are read
NoStep ==
    [ret |-> "none", headers |-> <<>>, variables |-> <<>>, query_fields |-> <<>>,
     post_fields |-> <<>>, url |-> <<>>, posts |-> NoPosts, post |-> 0]

InitFields ==
    /\ InitMain
    /\ due = {}
    /\ fn_pc = "call"
    /\ fn_in \in FieldInputs
    /\ fn_out = <<>>

\* process_httptests(): the fields of the test are loaded; a test whose
\* fields cannot be loaded is not run
fields_test_load ==
    /\ fn_pc = "call"
    /\ LET r == httptest_load_pairs(fn_in.test_rows, 1, <<>>, <<>>)
       IN /\ fn_out' = [ret |-> r.ret, headers |-> r.headers, variables |-> r.variables,
                        macros |-> [n \in FieldNames |-> NULL], step |-> NoStep]
          /\ fn_pc' = IF r.ret = "SUCCEED" THEN "cache" ELSE "done"
    /\ UNCHANGED <<mainvars, fn_in>>

\* process_httptests(): the variables of the test are added to the macro
\* cache
fields_cache ==
    /\ fn_pc = "cache"
    /\ fn_out' = [fn_out EXCEPT !.macros = http_process_variables(@, fn_out.variables, NULL, 1).macros]
    /\ fn_pc' = "step"
    /\ UNCHANGED <<mainvars, fn_in>>

\* process_httptest(): the URL and the raw posts of the step row, then the
\* fields of the step, then the body and the POST flag
fields_step_load ==
    /\ fn_pc = "step"
    /\ LET v == httpstep_load_rows(fn_out.macros, fn_in.step_rows, 1, NoStep)
           posts == httpstep_posts(fn_in.post_type,
                                   db_httpstep_posts(fn_out.macros, fn_in.post_type, fn_in.posts),
                                   v.post_fields)
       IN fn_out' = [fn_out EXCEPT !.step =
                        [v EXCEPT !.url = compose_url(http_substitute_variables(fn_out.macros, FieldsUrl),
                                                      v.query_fields),
                                  !.headers = headers_string(v.headers),
                                  !.query_fields = <<>>,
                                  !.post_fields = <<>>,
                                  !.posts = posts,
                                  !.post = curlopt_post(posts)]]
    /\ fn_pc' = "done"
    /\ UNCHANGED <<mainvars, fn_in>>

NextFields == fields_test_load \/ fields_cache \/ fields_step_load

SpecFields == InitFields /\ [][NextFields]_vars

\* the rows of the given types, in the order of the field ids
IsVariableRow(r) == r.type = ZBX_HTTPFIELD_VARIABLE
IsHeaderRow(r) == r.type = ZBX_HTTPFIELD_HEADER
IsPostRow(r) == r.type = ZBX_HTTPFIELD_POST_FIELD

\* the configured name with the value expanded for macros only
MacroOnly(rows) ==
    [k \in DOMAIN rows |->
        [first |-> rows[k].name,
         second |-> IF rows[k].value = SecretMacro THEN SecretValue ELSE rows[k].value]]

\* C23: the variables loaded at test scope and at step scope have the name
\* of their row exactly as configured, without macro expansion and without
\* variable substitution, and the value of their row with macros expanded
\* and no variable substituted, in the order of the rows.
C23_VariableFields ==
    /\ (fn_pc \in {"cache", "step", "done"} /\ fn_out.ret = "SUCCEED") =>
           fn_out.variables = MacroOnly(SelectSeq(fn_in.test_rows, IsVariableRow))
    /\ (fn_pc = "done" /\ fn_out.step.ret = "SUCCEED") =>
           fn_out.step.variables = MacroOnly(SelectSeq(fn_in.step_rows, IsVariableRow))

\* C23 witness: with {TOKEN} = lit in the scope, the step variables
\* {$PW} = {TOKEN} and {TOKEN} = {$PW} are loaded as {$PW} = {TOKEN} and
\* {TOKEN} = p&w.
C23_Witness ==
    /\ fn_pc = "done"
    /\ fn_out.macros[VarName] = "lit"
    /\ fn_in.step_rows = <<[name |-> SecretMacro, value |-> VarName, type |-> ZBX_HTTPFIELD_VARIABLE],
                           [name |-> VarName, value |-> SecretMacro, type |-> ZBX_HTTPFIELD_VARIABLE]>>
    /\ fn_out.step.variables = <<[first |-> SecretMacro, second |-> VarName],
                                 [first |-> VarName, second |-> SecretValue]>>

\* the name of a row with secrets redacted and its value with secrets
\* resolved, both with the variables of the scope substituted
Substituted(macros, rows) ==
    [k \in DOMAIN rows |->
        [first |-> LET key == IF rows[k].name = SecretMacro THEN MaskedValue ELSE rows[k].name
                   IN IF key \in DOMAIN macros /\ macros[key] # NULL THEN macros[key] ELSE key,
         second |-> LET value == IF rows[k].value = SecretMacro THEN SecretValue ELSE rows[k].value
                    IN IF value \in DOMAIN macros /\ macros[value] # NULL THEN macros[value] ELSE value]]

\* the raw posts of the step row, expanded
ExpandedPosts(macros, posts) ==
    [k \in DOMAIN posts |->
        IF posts[k] \in DOMAIN macros /\ macros[posts[k]] # NULL THEN macros[posts[k]]
        ELSE IF posts[k] = SecretMacro THEN SecretValue ELSE posts[k]]

\* C24: the body of a step of post type form is its post fields, URL-encoded
\* and joined as k=v with '&' in the order of the field ids, whatever the
\* posts column holds; the body of a step of post type raw is the expanded
\* posts column; the POST flag is set if and only if the body is not empty.
C24_RequestBody ==
    (fn_pc = "done" /\ fn_out.step.ret = "SUCCEED") =>
        /\ fn_in.post_type = ZBX_POSTTYPE_FORM =>
               fn_out.step.posts.str =
                   QueryString(Substituted(fn_out.macros, SelectSeq(fn_in.step_rows, IsPostRow)))
        /\ fn_in.post_type = ZBX_POSTTYPE_RAW =>
               fn_out.step.posts.str = ExpandedPosts(fn_out.macros, fn_in.posts)
        /\ fn_out.step.post = 1 <=> fn_out.step.posts.str # <<>>

\* C24 witness: the post fields (a, 1) and (b, '2 3') of a form step give
\* the body a=1&b=2%203 with the POST flag on, the posts column being x={TOKEN}.
C24_Witness ==
    /\ fn_pc = "done"
    /\ fn_in.post_type = ZBX_POSTTYPE_FORM
    /\ fn_in.step_rows = ExampleRows
    /\ fn_in.posts = <<"x=", VarName>>
    /\ fn_out.step.posts.str = <<"a", "=", "1", "&", "b", "=", "2%203">>
    /\ fn_out.step.post = 1

\* the name of a row with secrets redacted and its value with secrets
\* resolved, no variable substituted
Expanded(rows) ==
    [k \in DOMAIN rows |->
        [first |-> IF rows[k].name = SecretMacro THEN MaskedValue ELSE rows[k].name,
         second |-> IF rows[k].value = SecretMacro THEN SecretValue ELSE rows[k].value]]

\* the non-variable fields of the step as they leave the loader: the headers
\* string, the query string of the URL and the form body
StepFieldsAre(pairs) ==
    /\ fn_out.step.headers = headers_string(SelectSeq(pairs, LAMBDA p : p.type = ZBX_HTTPFIELD_HEADER))
    /\ LET q == SelectSeq(pairs, LAMBDA p : p.type = ZBX_HTTPFIELD_QUERY_FIELD)
           u == http_substitute_variables(fn_out.macros, FieldsUrl)
       IN fn_out.step.url = IF q = <<>> THEN u ELSE u \o <<"?">> \o QueryString(q)
    /\ fn_in.post_type = ZBX_POSTTYPE_FORM =>
           fn_out.step.posts.str = QueryString(SelectSeq(pairs, LAMBDA p : p.type = ZBX_HTTPFIELD_POST_FIELD))

\* the pairs of the rows together with the type of each row
Typed(rows, pairs) ==
    [k \in DOMAIN rows |-> [first |-> pairs[k].first, second |-> pairs[k].second, type |-> rows[k].type]]

\* C26 as stated: the headers of the test, too, have the variables of the
\* test's scope substituted in their names and values.
C26_Original ==
    /\ (fn_pc \in {"step", "done"} /\ fn_out.ret = "SUCCEED") =>
           fn_out.headers =
               headers_string(Substituted(fn_out.macros, SelectSeq(fn_in.test_rows, IsHeaderRow)))
    /\ (fn_pc = "done" /\ fn_out.step.ret = "SUCCEED") =>
           StepFieldsAre(Typed(fn_in.step_rows, Substituted(fn_out.macros, fn_in.step_rows)))

\* C26: a header, query field or post field loaded at step scope has its
\* name expanded with secrets redacted and then the variables of the test's
\* scope substituted, and its value expanded with secrets resolved and then
\* the variables substituted; a header loaded at test scope has its name
\* expanded with secrets redacted and its value expanded with secrets
\* resolved, and no variable substituted.
C26_NonVariableFields ==
    /\ (fn_pc \in {"cache", "step", "done"} /\ fn_out.ret = "SUCCEED") =>
           fn_out.headers = headers_string(Expanded(SelectSeq(fn_in.test_rows, IsHeaderRow)))
    /\ (fn_pc = "done" /\ fn_out.step.ret = "SUCCEED") =>
           StepFieldsAre(Typed(fn_in.step_rows, Substituted(fn_out.macros, fn_in.step_rows)))

\* C26 witness: with {TOKEN} = lit in the scope, the header {TOKEN}: {TOKEN}
\* of the test is loaded as it is and the header {$PW}: {TOKEN} of the step
\* as ******: lit.
C26_Witness ==
    /\ fn_pc = "done"
    /\ fn_out.macros[VarName] = "lit"
    /\ fn_out.headers = <<VarName, ":", VarName>>
    /\ fn_in.step_rows = <<[name |-> SecretMacro, value |-> VarName, type |-> ZBX_HTTPFIELD_HEADER]>>
    /\ fn_out.step.headers = <<MaskedValue, ":", "lit">>

\* ------------------------------------------------------------------
\* xml.c: the XML object of the embedded script engine, one call of its
\* constructor or of one of its methods, checked on its own
\* ------------------------------------------------------------------

\* the functions of the XML object
XmlMethods == {"query", "fromJson", "toJson"}
XmlFunctions == XmlMethods \cup {"ctor"}

\* what zbx_query_xpath(), zbx_json_to_xml() and zbx_xml_to_json() give: a
\* result string, or an error message that may quote the data it was given
XmlStrings == {"", "<a>1</a>", "{\"a\":\"1\"}"}
XmlErrors ==
    {"cannot parse xpath", "invalid object format at: 'x'", "invalid object format at: '%s'",
     "invalid object format at: '%d'"}

\* the texts a printf-style format gives when it is formatted without
\* arguments: itself when it holds no conversion specification, else
\* whatever the missing argument happens to be
Formatted(fmt) ==
    CASE fmt = "invalid object format at: '%s'" ->
             {"invalid object format at: '(null)'", "invalid object format at: '\\377'"}
      [] fmt = "invalid object format at: '%d'" ->
             {"invalid object format at: '0'", "invalid object format at: '-1'"}
      [] OTHER -> {fmt}

\* no error object
NoError == [code |-> "none", message |-> ""]

\* the call has not returned
NoOutcome == [outcome |-> "none", nrets |-> 0, top |-> "", thrown |-> NoError]

XmlInputs ==
    [func : XmlFunctions, constructor_call : BOOLEAN, ret : {"SUCCEED", "FAIL"},
     str : XmlStrings, error : XmlErrors]

InitXml ==
    /\ InitMain
    /\ due = {}
    /\ fn_pc = "call"
    /\ fn_in \in XmlInputs
    /\ fn_out = NoOutcome

\* es_xml_ctor(): a call that is not a constructor call returns
\* DUK_RET_TYPE_ERROR, a constructor call returns no value
es_xml_ctor ==
    /\ fn_pc = "call"
    /\ fn_in.func = "ctor"
    /\ fn_out' = IF ~fn_in.constructor_call
                 THEN [NoOutcome EXCEPT !.outcome = "throw",
                                        !.thrown = [code |-> "DUK_RET_TYPE_ERROR", message |-> ""]]
                 ELSE [NoOutcome EXCEPT !.outcome = "return"]
    /\ fn_pc' = "done"
    /\ UNCHANGED <<mainvars, fn_in>>

\* the body the three methods share: the collaborator fails and the error
\* object is pushed with the message as its format, then thrown (a format
\* that reads a missing string argument may end the process instead); or
\* the string is pushed and returned
xml_method ==
    IF fn_in.ret = "FAIL"
    THEN \/ \E m \in Formatted(fn_in.error) :
               /\ fn_out' = [NoOutcome EXCEPT !.outcome = "throw",
                                              !.thrown = [code |-> "DUK_RET_EVAL_ERROR", message |-> m]]
               /\ fn_pc' = "done"
         \/ /\ fn_in.error = "invalid object format at: '%s'"
            /\ fn_out' = [NoOutcome EXCEPT !.outcome = "abort"]
            /\ fn_pc' = "done"
    ELSE /\ fn_out' = [NoOutcome EXCEPT !.outcome = "return", !.nrets = 1, !.top = fn_in.str]
         /\ fn_pc' = "done"

\* es_xml_query(): zbx_query_xpath() is the collaborator
es_xml_query ==
    /\ fn_pc = "call"
    /\ fn_in.func = "query"
    /\ xml_method
    /\ UNCHANGED <<mainvars, fn_in>>

\* es_xml_from_json(): zbx_json_to_xml() is the collaborator
es_xml_from_json ==
    /\ fn_pc = "call"
    /\ fn_in.func = "fromJson"
    /\ xml_method
    /\ UNCHANGED <<mainvars, fn_in>>

\* es_xml_to_json(): zbx_xml_to_json() is the collaborator
es_xml_to_json ==
    /\ fn_pc = "call"
    /\ fn_in.func = "toJson"
    /\ xml_method
    /\ UNCHANGED <<mainvars, fn_in>>

NextXml == es_xml_ctor \/ es_xml_query \/ es_xml_from_json \/ es_xml_to_json

SpecXml == InitXml /\ [][NextXml]_vars

\* C25: a call of query, fromJson or toJson whose collaborator succeeds
\* returns one value, the result string, and throws nothing; a call whose
\* collaborator fails throws an error whose message is the message of the
\* collaborator and returns no value; the constructor called as a plain
\* function fails with a type error.
C25_XmlOutcomes ==
    fn_pc = "done" =>
        /\ (fn_in.func \in XmlMethods /\ fn_in.ret = "SUCCEED") =>
               /\ fn_out.outcome = "return"
               /\ fn_out.nrets = 1
               /\ fn_out.top = fn_in.str
               /\ fn_out.thrown = NoError
        /\ (fn_in.func \in XmlMethods /\ fn_in.ret = "FAIL") =>
               /\ fn_out.outcome = "throw"
               /\ fn_out.nrets = 0
               /\ fn_out.thrown.message = fn_in.error
        /\ (fn_in.func = "ctor" /\ ~fn_in.constructor_call) =>
               /\ fn_out.outcome = "throw"
               /\ fn_out.thrown.code = "DUK_RET_TYPE_ERROR"

\* ------------------------------------------------------------------
\* the page buffer of a step: the attempts of the retry loop and the
\* callbacks of the driver, checked on their own
\* ------------------------------------------------------------------

MaxChunks == 2

ZBX_RETRIEVE_MODE_CONTENT == "content"
ZBX_RETRIEVE_MODE_HEADERS == "headers"
ZBX_RETRIEVE_MODE_BOTH == "both"
RetrieveModes == {ZBX_RETRIEVE_MODE_CONTENT, ZBX_RETRIEVE_MODE_HEADERS, ZBX_RETRIEVE_MODE_BOTH}

\* the page after memset(&page, 0, sizeof(page)) and after zbx_free(page.data)
EmptyPage == [null |-> TRUE, data |-> <<>>]

\* the pieces the driver hands to the callbacks in attempt k: header lines
\* and pieces of the body
Chunks(k) == [attempt : {k}, part : {"header", "body"}]
Deliveries(k) == UNION {[1..n -> Chunks(k)] : n \in 0..MaxChunks}

\* variant: a piece replaces what the page holds
curl_write_cb_replace(p, ptr) == [null |-> FALSE, data |-> <<ptr>>]

\* curl_write_cb(): the piece is appended to the page, which is allocated
\* with the first piece
curl_write_cb(p, ptr) ==
    IF p.null THEN [null |-> FALSE, data |-> <<ptr>>]
    ELSE [null |-> FALSE, data |-> Append(p.data, ptr)]

\* curl_ignore_cb(): the piece is dropped
curl_ignore_cb(p, ptr) == p

\* the callback that process_httptest() sets for a part in a retrieve mode
written(retrieve_mode, part) ==
    CASE retrieve_mode = ZBX_RETRIEVE_MODE_CONTENT -> part = "body"
      [] retrieve_mode = ZBX_RETRIEVE_MODE_BOTH -> TRUE
      [] retrieve_mode = ZBX_RETRIEVE_MODE_HEADERS -> part = "header"

\* curl_easy_perform(): the pieces of a transfer go through the callbacks
RECURSIVE transfer(_, _, _, _)
transfer(p, retrieve_mode, pieces, i) ==
    IF i > Len(pieces) THEN p
    ELSE transfer(IF written(retrieve_mode, pieces[i].part)
                  THEN curl_write_cb(p, pieces[i])
                  ELSE curl_ignore_cb(p, pieces[i]),
                  retrieve_mode, pieces, i + 1)

InitPage ==
    /\ InitMain
    /\ due = {}
    /\ fn_pc = "call"
    /\ fn_in \in [retries : 0..MaxRetries, retrieve_mode : RetrieveModes]
    /\ fn_out = <<>>

\* the step before the retry loop: the page was freed by its last use
page_step ==
    /\ fn_pc = "call"
    /\ fn_out' = [page |-> EmptyPage, retries |-> fn_in.retries, attempt |-> 0,
                  err |-> "CURLE_OK", delivered |-> <<>>, evaluated |-> <<>>]
    /\ fn_pc' = "loop"
    /\ UNCHANGED <<mainvars, fn_in>>

\* variant: the page is neither cleared before an attempt nor freed after a
\* failed one
page_perform_keep ==
    /\ fn_pc = "loop"
    /\ \E pieces \in Deliveries(fn_out.attempt + 1), e \in {"CURLE_OK", "CURLE_RECV_ERROR"} :
          /\ fn_out' = [fn_out EXCEPT !.attempt = @ + 1,
                                      !.delivered = pieces,
                                      !.err = e,
                                      !.page = transfer(fn_out.page, fn_in.retrieve_mode, pieces, 1),
                                      !.retries = IF e = "CURLE_OK" THEN @ ELSE @ - 1]
          /\ fn_pc' = IF e = "CURLE_OK" THEN "evaluate"
                      ELSE IF 0 < fn_out.retries - 1 THEN "loop" ELSE "failed"
    /\ UNCHANGED <<mainvars, fn_in>>

\* one pass of the retry loop: the page is cleared, the transfer runs, and a
\* failed transfer frees the page and takes one retry
page_perform ==
    /\ fn_pc = "loop"
    /\ \E pieces \in Deliveries(fn_out.attempt + 1), e \in {"CURLE_OK", "CURLE_RECV_ERROR"} :
          /\ fn_out' = [fn_out EXCEPT !.attempt = @ + 1,
                                      !.delivered = pieces,
                                      !.err = e,
                                      !.page = IF e = "CURLE_OK"
                                               THEN transfer(EmptyPage, fn_in.retrieve_mode, pieces, 1)
                                               ELSE EmptyPage,
                                      !.retries = IF e = "CURLE_OK" THEN @ ELSE @ - 1]
          /\ fn_pc' = IF e = "CURLE_OK" THEN "evaluate"
                      ELSE IF 0 < fn_out.retries - 1 THEN "loop" ELSE "failed"
    /\ UNCHANGED <<mainvars, fn_in>>

\* after a transfer that succeeded the page is evaluated and freed
page_evaluate ==
    /\ fn_pc = "evaluate"
    /\ fn_out' = [fn_out EXCEPT !.evaluated = fn_out.page.data, !.page = EmptyPage]
    /\ fn_pc' = "done"
    /\ UNCHANGED <<mainvars, fn_in>>

NextPage == page_step \/ page_perform \/ page_evaluate

SpecPage == InitPage /\ [][NextPage]_vars

\* the pieces of a transfer that the retrieve mode keeps
Captured(pieces) ==
    SelectSeq(pieces, LAMBDA c :
        \/ fn_in.retrieve_mode = ZBX_RETRIEVE_MODE_BOTH
        \/ fn_in.retrieve_mode = ZBX_RETRIEVE_MODE_CONTENT /\ c.part = "body"
        \/ fn_in.retrieve_mode = ZBX_RETRIEVE_MODE_HEADERS /\ c.part = "header")

\* C27: the page is empty before every attempt of the retry loop, and what
\* is evaluated after the loop is exactly what the callbacks kept of the
\* last attempt, the one that succeeded: nothing of a failed attempt is in
\* it.
C27_CaptureBuffer ==
    /\ fn_pc \in {"loop", "failed"} => fn_out.page = EmptyPage
    /\ fn_pc = "evaluate" =>
           /\ fn_out.page.data = Captured(fn_out.delivered)
           /\ \A i \in DOMAIN fn_out.page.data : fn_out.page.data[i].attempt = fn_out.attempt
    /\ fn_pc = "done" =>
           /\ fn_out.evaluated = Captured(fn_out.delivered)
           /\ \A i \in DOMAIN fn_out.evaluated : fn_out.evaluated[i].attempt = fn_out.attempt

\* C27 witness: the second attempt succeeded and its header and body are
\* what was evaluated.
C27_Witness ==
    /\ fn_pc = "done"
    /\ fn_out.attempt = 2
    /\ fn_in.retrieve_mode = ZBX_RETRIEVE_MODE_BOTH
    /\ fn_out.evaluated = <<[attempt |-> 2, part |-> "header"], [attempt |-> 2, part |-> "body"]>>

\* ------------------------------------------------------------------
\* what a worker holds while it runs its tests: the result sets, vectors,
\* strings, header list, driver session and macro cache, checked on their
\* own
\* ------------------------------------------------------------------

MaxLeases == 3

\* what is allocated for a test and what for a step
TestResources == {"result", "variables", "headers", "strings", "steps_result", "buffer", "easyhandle"}
StepResources == {"db_httpstep", "httpstep", "httpstep.variables", "headers_slist"}

\* a resource is taken: one that is still held is lost with its handle
acquire(o, r) ==
    [o EXCEPT !.held = @ \cup r, !.lost = @ \cup (o.held \cap r)]

\* a resource is given back and its handle cleared: giving back what is not
\* held does nothing
release(o, r) == [o EXCEPT !.held = @ \ r]

InitLifetime ==
    /\ InitMain
    /\ due = {}
    /\ fn_pc = "next"
    /\ fn_in = <<>>
    /\ fn_out = [held |-> {}, lost |-> {}, macros |-> {}, cached |-> {}, test |-> 0, steps |-> 0]

\* process_httptests(): the row of the next test is selected
life_select ==
    /\ fn_pc = "next"
    /\ fn_out.test < MaxLeases
    /\ fn_out' = [acquire(fn_out, {"result"}) EXCEPT !.test = @ + 1, !.steps = 0]
    /\ fn_pc' = "fetch"
    /\ UNCHANGED <<mainvars, fn_in>>

\* process_httptests(): the test has no row
life_norow ==
    /\ fn_pc = "fetch"
    /\ fn_out' = release(fn_out, {"result"})
    /\ fn_pc' = "next"
    /\ UNCHANGED <<mainvars, fn_in>>

\* httptest_load_pairs() fails: at the value of a row or at a row of an
\* unknown type with the variables read so far, or at the name of a row with
\* the variables freed; process_httptests() continues with the next test
life_load_fail ==
    /\ fn_pc = "fetch"
    /\ \/ fn_out' = acquire(fn_out, {"variables"})
       \/ fn_out' = release(acquire(fn_out, {"variables"}), {"variables"})
    /\ fn_pc' = "next"
    /\ UNCHANGED <<mainvars, fn_in>>

\* httptest_load_pairs() succeeds; the strings of the test are expanded, its
\* variables are added to the macro cache and process_httptest() selects the
\* steps
life_load ==
    /\ fn_pc = "fetch"
    /\ \E cached \in BOOLEAN :
          fn_out' = [acquire(fn_out, {"variables", "headers", "strings", "steps_result", "buffer"})
                        EXCEPT !.macros = IF cached THEN @ \cup {fn_out.test} ELSE @,
                               !.cached = IF cached THEN @ \cup {fn_out.test} ELSE @]
    /\ fn_pc' = "init"
    /\ UNCHANGED <<mainvars, fn_in>>

\* process_httptest(): the update interval is invalid
life_delay_invalid ==
    /\ fn_pc = "init"
    /\ fn_pc' = "httptest_error"
    /\ UNCHANGED <<mainvars, fn_in, fn_out>>

\* process_httptest(): the driver session cannot be opened, or it is opened
\* and an option of the test cannot be set, or it is ready for the steps
life_init ==
    /\ fn_pc = "init"
    /\ \/ fn_pc' = "clean" /\ UNCHANGED fn_out
       \/ fn_pc' = "clean" /\ fn_out' = acquire(fn_out, {"easyhandle"})
       \/ fn_pc' = "row" /\ fn_out' = acquire(fn_out, {"easyhandle"})
    /\ UNCHANGED <<mainvars, fn_in>>

\* the step loop: the texts of the next step row are expanded and its
\* fields are loaded
life_step ==
    /\ fn_pc = "row"
    /\ fn_out.steps < MaxNo
    /\ \/ /\ fn_out' = [acquire(fn_out, {"db_httpstep"}) EXCEPT !.steps = @ + 1]
          /\ fn_pc' = "httpstep_error_set"
       \/ /\ fn_out' = [acquire(fn_out, {"db_httpstep", "httpstep", "httpstep.variables"})
                           EXCEPT !.steps = @ + 1]
          /\ fn_pc' = "setopt"
    /\ UNCHANGED <<mainvars, fn_in>>

\* the step loop ends: no row is left, or the worker is stopping
life_norows ==
    /\ fn_pc = "row"
    /\ fn_pc' = "clean"
    /\ UNCHANGED <<mainvars, fn_in, fn_out>>

\* the options before the header list: the timeout is rejected or an option
\* cannot be set; or the header list is built, with the headers of the step
\* or of the test, or without any
life_headers ==
    /\ fn_pc = "setopt"
    /\ \/ fn_pc' = "httpstep_error_set" /\ UNCHANGED fn_out
       \/ fn_pc' = "headers" /\ fn_out' = acquire(fn_out, {"headers_slist"})
       \/ fn_pc' = "headers" /\ UNCHANGED fn_out
    /\ UNCHANGED <<mainvars, fn_in>>

\* the options after the header list: the cookie, the header list, the
\* callbacks, the authentication, the timeout or the URL cannot be set
life_setopt_fail ==
    /\ fn_pc = "headers"
    /\ fn_pc' = "httpstep_error_set"
    /\ UNCHANGED <<mainvars, fn_in, fn_out>>

\* the retry loop, the header list freed after it, and the evaluation of a
\* page that was retrieved, which may capture a variable
life_perform ==
    /\ fn_pc = "headers"
    /\ \/ /\ fn_out' = release(fn_out, {"headers_slist"})
          /\ fn_pc' = "httpstep_error_set"
       \/ \E captured \in BOOLEAN :
             /\ fn_out' = [release(fn_out, {"headers_slist"})
                              EXCEPT !.macros = IF captured THEN @ \cup {fn_out.test} ELSE @,
                                     !.cached = IF captured THEN @ \cup {fn_out.test} ELSE @]
             /\ fn_pc' \in {"httpstep_error", "httpstep_error_set"}
    /\ UNCHANGED <<mainvars, fn_in>>

\* httpstep_error: the texts and the fields of the step are freed; a step
\* with an error ends the loop
life_httpstep_error ==
    /\ fn_pc \in {"httpstep_error", "httpstep_error_set"}
    /\ fn_out' = release(fn_out, {"db_httpstep", "httpstep", "httpstep.variables"})
    /\ fn_pc' = IF fn_pc = "httpstep_error_set" THEN "clean" ELSE "row"
    /\ UNCHANGED <<mainvars, fn_in>>

\* clean: the driver session is closed
life_clean ==
    /\ fn_pc = "clean"
    /\ fn_out' = release(fn_out, {"easyhandle"})
    /\ fn_pc' = "httptest_error"
    /\ UNCHANGED <<mainvars, fn_in>>

\* httptest_error: the result set of the steps and the buffer are freed
life_httptest_error ==
    /\ fn_pc = "httptest_error"
    /\ fn_out' = release(fn_out, {"steps_result", "buffer"})
    /\ fn_pc' = "teardown"
    /\ UNCHANGED <<mainvars, fn_in>>

\* variant: the macro cache is left as it is
life_teardown_keepmacros ==
    /\ fn_pc = "teardown"
    /\ fn_out' = release(fn_out, {"strings", "headers", "variables", "result"})
    /\ fn_pc' = "next"
    /\ UNCHANGED <<mainvars, fn_in>>

\* process_httptests(): the strings, the headers and the variables of the
\* test are freed, the macro cache is cleared and the result set is freed
life_teardown ==
    /\ fn_pc = "teardown"
    /\ fn_out' = [release(fn_out, {"strings", "headers", "variables", "result"}) EXCEPT !.macros = {}]
    /\ fn_pc' = "next"
    /\ UNCHANGED <<mainvars, fn_in>>

NextLifetime ==
    \/ life_select \/ life_norow \/ life_load_fail \/ life_load
    \/ life_delay_invalid \/ life_init \/ life_step \/ life_norows
    \/ life_headers \/ life_setopt_fail \/ life_perform
    \/ life_httpstep_error \/ life_clean \/ life_httptest_error \/ life_teardown

SpecLifetime == InitLifetime /\ [][NextLifetime]_vars

\* C29: when the next test is leased nothing that was allocated for a test
\* or a step before is still held, and nothing was lost with its handle: the
\* result set of the test, its vectors and strings, the header list of the
\* step and the driver session were released on the path taken, the failed
\* load of the fields of the test and the step errors after the header list
\* was built included.
C29_ReleasedOnEveryPath ==
    fn_pc = "next" =>
        /\ fn_out.held \cap (TestResources \cup StepResources) = {}
        /\ fn_out.lost \cap (TestResources \cup StepResources) = {}

\* C30: the macro cache is empty whenever a test is leased and until its
\* fields are loaded, and what it holds later was cached by the test that is
\* running, also after a test that failed to load its fields.
C30_CacheEmptyAtStart ==
    /\ fn_pc \in {"next", "fetch"} => fn_out.macros = {}
    /\ fn_out.macros \subseteq {fn_out.test}

\* C30 witness: the first test cached a value, the second failed to load its
\* fields, and the third is leased with an empty cache.
C30_Witness ==
    /\ fn_pc = "fetch"
    /\ fn_out.test = 3
    /\ fn_out.cached = {1}
    /\ "result" \in fn_out.lost
    /\ fn_out.macros = {}

\* ------------------------------------------------------------------
\* the evaluation of one performed step and its two extraction passes,
\* checked on their own
\* ------------------------------------------------------------------

\* the value of the variable in the cache when the step starts: none, the
\* literal of the test cached before the test ran, or a value an earlier
\* step captured
ScopeBefore(variables) ==
    IF variables = <<[first |-> VarName, second |-> "lit"]>>
    THEN {"lit"}
    ELSE {NULL, "xyz789"}

EvalInputs ==
    {in \in [rsp_ok : BOOLEAN, rspcode : RspCodes, status_codes : StatusCodeLists,
             time_ok : BOOLEAN, speed_ok : BOOLEAN, required_ok : BOOLEAN,
             page : Pages, variables : VarDefs, step_variables : StepVarDefs,
             macros : [{VarName} -> {NULL, "lit", "xyz789"}]] :
        in.macros[VarName] \in ScopeBefore(in.variables)}

InitEval ==
    /\ InitMain
    /\ due = {}
    /\ fn_pc = "call"
    /\ fn_in \in EvalInputs
    /\ fn_out = [macros |-> fn_in.macros, err_str |-> NULL, ran |-> {}]

\* variant: the variables of the step are extracted whatever the evaluation
\* has recorded
eval_extract_unguarded ==
    /\ fn_pc = "call"
    /\ LET e1 == EvalError(fn_in.rsp_ok, fn_in.rspcode, fn_in.status_codes, fn_in.time_ok,
                           fn_in.speed_ok, fn_in.required_ok, TRUE, TRUE)
           r1 == IF e1 = NULL
                 THEN http_process_variables(fn_in.macros, fn_in.variables, fn_in.page, 1)
                 ELSE [ret |-> "SUCCEED", macros |-> fn_in.macros]
           e2 == IF e1 = NULL /\ r1.ret = "FAIL" THEN "error in scenario variables" ELSE e1
           r2 == http_process_variables(r1.macros, fn_in.step_variables, fn_in.page, 1)
           e3 == IF e2 = NULL /\ r2.ret = "FAIL" THEN "error in step variables" ELSE e2
       IN fn_out' = [macros |-> r2.macros,
                     err_str |-> e3,
                     ran |-> (IF e1 = NULL THEN {"tvars"} ELSE {}) \cup {"svars"}]
    /\ fn_pc' = "done"
    /\ UNCHANGED <<mainvars, fn_in>>

\* the CURLE_OK block of a step: response code, status codes, total time,
\* speed and required pattern, then the variables of the scenario and those
\* of the step, each pass only while err_str is NULL
eval_extract ==
    /\ fn_pc = "call"
    /\ LET e1 == EvalError(fn_in.rsp_ok, fn_in.rspcode, fn_in.status_codes, fn_in.time_ok,
                           fn_in.speed_ok, fn_in.required_ok, TRUE, TRUE)
           r1 == IF e1 = NULL
                 THEN http_process_variables(fn_in.macros, fn_in.variables, fn_in.page, 1)
                 ELSE [ret |-> "SUCCEED", macros |-> fn_in.macros]
           e2 == IF e1 = NULL /\ r1.ret = "FAIL" THEN "error in scenario variables" ELSE e1
           r2 == IF e2 = NULL
                 THEN http_process_variables(r1.macros, fn_in.step_variables, fn_in.page, 1)
                 ELSE [ret |-> "SUCCEED", macros |-> r1.macros]
           e3 == IF e2 = NULL /\ r2.ret = "FAIL" THEN "error in step variables" ELSE e2
       IN fn_out' = [macros |-> r2.macros,
                     err_str |-> e3,
                     ran |-> (IF e1 = NULL THEN {"tvars"} ELSE {})
                             \cup (IF e2 = NULL THEN {"svars"} ELSE {})]
    /\ fn_pc' = "done"
    /\ UNCHANGED <<mainvars, fn_in>>

NextEval == eval_extract

SpecEval == InitEval /\ [][NextEval]_vars

\* the evaluation recorded an error before the extraction passes
ErrorBeforeExtraction ==
    \/ ~fn_in.rsp_ok
    \/ fn_in.status_codes # {} /\ fn_in.rspcode \notin fn_in.status_codes
    \/ ~fn_in.time_ok
    \/ ~fn_in.speed_ok
    \/ ~fn_in.required_ok

\* C32: when the evaluation of a step has recorded an error before the
\* extraction (response code not fetched, status code mismatch, total time
\* or speed not fetched, required pattern missing) neither the variables of
\* the scenario nor those of the step are extracted, so the cache of the test
\* after the step is the cache before it and the recorded error stays; and
\* when the extraction of the scenario variables fails, that of the step
\* variables does not run.
C32_NoExtractionAfterError ==
    fn_pc = "done" =>
        /\ ErrorBeforeExtraction =>
              /\ fn_out.ran = {}
              /\ fn_out.macros = fn_in.macros
              /\ fn_out.err_str \notin {NULL, "error in scenario variables",
                                        "error in step variables"}
        /\ fn_out.err_str = "error in scenario variables" => fn_out.ran = {"tvars"}

\* C32 witness: the response does not match the status codes; its page
\* carries a token the scenario and the step would capture, and the cache
\* still holds the value of the earlier step.
C32_Witness ==
    /\ fn_pc = "done"
    /\ fn_in.rsp_ok /\ fn_in.rspcode = 200 /\ fn_in.status_codes = {201} \cup (301..399)
    /\ fn_in.page = "abc123"
    /\ fn_in.variables = <<[first |-> VarName, second |-> REGEXP]>>
    /\ fn_in.step_variables = <<[first |-> VarName, second |-> REGEXP]>>
    /\ fn_in.macros[VarName] = "xyz789"
    /\ fn_out.macros[VarName] = "xyz789"
    /\ fn_out.err_str = "response code did not match any of the required status codes"
====
